---- MODULE Spec2Model ----
(***************************************************************************)
(* The message/thread store of src/global/reducers/messages.ts as a state  *)
(* machine.  Every reducer is a pure function from a global state to a     *)
(* global state; it is an operator here, and one action per reducer        *)
(* applies it to the state held in the variables.                          *)
(*                                                                         *)
(* A JS value that may be `undefined` is a set with at most one element:   *)
(* Undefined is {} and a defined value v is {v}.  A JS object used as a    *)
(* map (byId, threadsById, byChatId, byTabId, tabThreads) is a function    *)
(* whose DOMAIN is the set of keys present.                                *)
(***************************************************************************)
EXTENDS Integers, Sequences, FiniteSets, TLC

VARIABLES
  byChatId,   \* global.messages.byChatId : chatId -> [byId, threadsById]
  byTabId,    \* global.byTabId : tabId -> [id, messageLists, tabThreads]
  scheduledByChatId,  \* global.scheduledMessages.byChatId : chatId -> [byId]
  last        \* the reducer call that produced this state

vars == <<byChatId, byTabId, scheduledByChatId, last>>

-----------------------------------------------------------------------------
(* Bounds of the model *)

\* message ids are 1..MaxId
MaxId == 3

\* config MESSAGE_LIST_SLICE and MESSAGE_LIST_VIEWPORT_LIMIT; the program's
\* values are larger, the model keeps the window small
MESSAGE_LIST_SLICE == 2

MESSAGE_LIST_VIEWPORT_LIMIT == 2

-----------------------------------------------------------------------------
(* JS values *)

Undefined == {}
Some(x) == {x}
IsDef(o) == o # {}
Get(o) == CHOOSE x \in o : TRUE

Range(s) == {s[i] : i \in DOMAIN s}

\* object.key: undefined when the object has no such key
Field(object, key) == IF key \in DOMAIN object THEN object[key] ELSE Undefined

\* {...f, [k]: v}
Put(f, k, v) == [x \in (DOMAIN f) \cup {k} |-> IF x = k THEN v ELSE f[x]]

\* {...a, ...b}
Merge(a, b) == [x \in (DOMAIN a) \cup (DOMAIN b) |-> IF x \in DOMAIN b THEN b[x] ELSE a[x]]

\* util/iteratees omit
omit(f, ks) == [x \in (DOMAIN f) \ ks |-> f[x]]

RECURSIVE SortedSeqOf(_)
SortedSeqOf(S) ==
  IF S = {} THEN <<>>
  ELSE LET m == CHOOSE x \in S : \A y \in S : x <= y
       IN <<m>> \o SortedSeqOf(S \ {m})

\* Array.prototype.filter
RECURSIVE FilterSeq(_, _)
FilterSeq(s, keep) ==
  IF s = <<>> THEN <<>>
  ELSE (IF Head(s) \in keep THEN <<Head(s)>> ELSE <<>>) \o FilterSeq(Tail(s), keep)

\* Array.prototype.indexOf, counting from 0; -1 when the array has no x
IndexOf(s, x) ==
  IF x \in Range(s) THEN (CHOOSE i \in 1..Len(s) : s[i] = x /\ \A j \in 1..(i - 1) : s[j] # x) - 1
  ELSE -1

\* Array.prototype.slice(start, end), indices counted from 0; a negative
\* index counts from the end of the array
Slice(s, start, end) ==
  LET n == Len(s)
      Clamp(i) == IF i < 0 THEN (IF n + i < 0 THEN 0 ELSE n + i)
                  ELSE (IF i > n THEN n ELSE i)
  IN SubSeq(s, Clamp(start) + 1, Clamp(end))

\* util/iteratees unique: Array.from(new Set(array)), first occurrences kept
RECURSIVE unique(_)
unique(s) ==
  IF s = <<>> THEN <<>>
  ELSE LET front == unique(SubSeq(s, 1, Len(s) - 1))
       IN IF s[Len(s)] \in Range(front) THEN front ELSE front \o <<s[Len(s)]>>

\* Array.prototype.slice(-n) for n >= 0; slice(-0) is slice(0), the whole array
SliceLast(s, n) ==
  IF n = 0 \/ n >= Len(s) THEN s
  ELSE SubSeq(s, Len(s) - n + 1, Len(s))

-----------------------------------------------------------------------------
(* Imported constants and helpers *)

MAIN_THREAD_ID == -1
TMP_CHAT_ID == "tmp"
IS_TEST == FALSE
IS_MOCKED_CLIENT == FALSE
LOCAL_MESSAGE_MIN_ID == 3

Chats == {"c1", "c2"}
Ids == 1..MaxId
ThreadIds == {MAIN_THREAD_ID} \cup Ids
TabIds == {1, 2}
ListTypes == {"thread", "pinned"}

\* util/messageKey isLocalMessageId: local ids are a reserved high sub-range
isLocalMessageId(id) == id >= LOCAL_MESSAGE_MIN_ID

\* helpers orderHistoryIds: ascending history order, unique
orderHistoryIds(ids) == SortedSeqOf(Range(ids))

\* helpers orderPinnedIds: the pinned list is sorted, unique
orderPinnedIds(ids) == SortedSeqOf(Range(ids))

\* util/iteratees areSortedArraysEqual: element-wise comparison
areSortedArraysEqual(a, b) ==
  Len(a) = Len(b) /\ \A i \in 1..Len(a) : a[i] = b[i]

\* util/iteratees excludeSortedArray: linear merge of two ascending arrays,
\* keeping the elements of base that toExclude does not hold
excludeSortedArray(base, toExclude) ==
  LET RECURSIVE walk(_, _)
      walk(i, j) ==
        IF i > Len(base) THEN <<>>
        ELSE IF j > Len(toExclude) THEN <<base[i]>> \o walk(i + 1, j)
        ELSE IF toExclude[j] < base[i] THEN walk(i, j + 1)
        ELSE IF toExclude[j] = base[i] THEN walk(i + 1, j)
        ELSE <<base[i]>> \o walk(i + 1, j)
  IN walk(1, 1)

\* util/iteratees pick: the named keys of the object, each with its value
pick(object, keys) == [k \in keys |-> object[k]]

-----------------------------------------------------------------------------
(* Shapes *)

EmptyThread ==
  [listedIds |-> Undefined, outlyingLists |-> Undefined, pinnedIds |-> Undefined,
   scheduledIds |-> Undefined, lastViewportIds |-> Undefined, threadInfo |-> Undefined]

EmptyTabThread == [viewportIds |-> Undefined]

EmptyThreadInfo ==
  [isCommentsInfo |-> Undefined, chatId |-> Undefined, threadId |-> Undefined,
   fromChannelId |-> Undefined, fromMessageId |-> Undefined,
   messagesCount |-> Undefined, lastMessageId |-> Undefined,
   lastReadInboxMessageId |-> Undefined]

EmptyMessageStore == [byId |-> <<>>, threadsById |-> <<>>]

\* the message the API delivers under (chatId, id).  In the discussion group
\* c1, ids 1, 4, .. are linked channel posts forwarded from the channel c2,
\* ids 2, 5, .. are comments in the thread of the post before them, and
\* ids 3, 6, .. are forwards that are not linked posts; the messages of c2
\* are plain channel posts
Message(chatId, id) ==
  [id |-> id, chatId |-> chatId,
   threadId |-> IF chatId = "c1" /\ id % 3 = 2 THEN Some(id - 1) ELSE Undefined,
   forwardInfo |->
     IF chatId = "c1" /\ id % 3 # 2
     THEN Some([isLinkedChannelPost |-> id % 3 = 1, fromChatId |-> "c2",
                fromMessageId |-> id])
     ELSE Undefined]

Messages(chatId, ids) == [id \in ids |-> Message(chatId, id)]

Global ==
  [byChatId |-> byChatId, byTabId |-> byTabId, scheduledByChatId |-> scheduledByChatId]

-----------------------------------------------------------------------------
(* Selectors *)

selectTabState(global, tabId) == global.byTabId[tabId]

selectChatMessages(global, chatId) ==
  IF chatId \in DOMAIN global.byChatId
  THEN Some(global.byChatId[chatId].byId) ELSE Undefined

selectChatMessage(global, chatId, messageId) ==
  IF chatId \in DOMAIN global.byChatId
     /\ messageId \in DOMAIN global.byChatId[chatId].byId
  THEN Some(global.byChatId[chatId].byId[messageId]) ELSE Undefined

selectThread(global, chatId, threadId) ==
  IF chatId \in DOMAIN global.byChatId
     /\ threadId \in DOMAIN global.byChatId[chatId].threadsById
  THEN global.byChatId[chatId].threadsById[threadId] ELSE EmptyThread

selectThreadInfo(global, chatId, threadId) == selectThread(global, chatId, threadId).threadInfo
selectListedIds(global, chatId, threadId) == selectThread(global, chatId, threadId).listedIds
selectOutlyingLists(global, chatId, threadId) == selectThread(global, chatId, threadId).outlyingLists
selectPinnedIds(global, chatId, threadId) == selectThread(global, chatId, threadId).pinnedIds

selectTabThread(global, chatId, threadId, tabId) ==
  LET tabThreads == selectTabState(global, tabId).tabThreads
  IN IF chatId \in DOMAIN tabThreads /\ threadId \in DOMAIN tabThreads[chatId]
     THEN tabThreads[chatId][threadId] ELSE EmptyTabThread

selectViewportIds(global, chatId, threadId, tabId) ==
  selectTabThread(global, chatId, threadId, tabId).viewportIds

selectCurrentMessageList(global, tabId) ==
  LET messageLists == selectTabState(global, tabId).messageLists
  IN IF Len(messageLists) > 0 THEN Some(messageLists[Len(messageLists)]) ELSE Undefined

\* the thread a message belongs to, from the message's own membership field
selectThreadIdFromMessage(global, message) == Field(message, "threadId")

-----------------------------------------------------------------------------
(* Reducers *)

updateTabState(global, tabStatePartial, tabId) ==
  [global EXCEPT !.byTabId = Put(@, tabId, Merge(@[tabId], tabStatePartial))]

updateMessageStore(global, chatId, update) ==
  LET current == IF chatId \in DOMAIN global.byChatId
                 THEN global.byChatId[chatId] ELSE EmptyMessageStore
  IN [global EXCEPT !.byChatId = Put(@, chatId, Merge(current, update))]

replaceChatMessages(global, chatId, newById) ==
  updateMessageStore(global, chatId, [byId |-> newById])

updateThread(global, chatId, threadId, threadUpdate) ==
  LET threadsById == IF chatId \in DOMAIN global.byChatId
                     THEN global.byChatId[chatId].threadsById ELSE <<>>
  IN IF ~IsDef(threadUpdate)
     THEN updateMessageStore(global, chatId, [threadsById |-> omit(threadsById, {threadId})])
     ELSE updateMessageStore(global, chatId,
            [threadsById |->
               Put(threadsById, threadId,
                   Merge(IF threadId \in DOMAIN threadsById
                         THEN threadsById[threadId] ELSE EmptyThread,
                         Get(threadUpdate)))])

replaceThreadParam(global, chatId, threadId, paramName, newValue) ==
  updateThread(global, chatId, threadId, Some([x \in {paramName} |-> newValue]))

\* the chat's entry of tabThreads is rebuilt with the written thread only
updateTabThreadAlone(global, chatId, threadId, threadUpdate, tabId) ==
  LET tabState == selectTabState(global, tabId)
      current == selectTabThread(global, chatId, threadId, tabId)
      ofChat == IF chatId \in DOMAIN tabState.tabThreads
                THEN tabState.tabThreads[chatId] ELSE <<>>
  IN updateTabState(global,
       [tabThreads |-> Put(tabState.tabThreads, chatId,
                           Put(<<>>, threadId, Merge(current, threadUpdate)))],
       tabId)

updateTabThread(global, chatId, threadId, threadUpdate, tabId) ==
  LET tabState == selectTabState(global, tabId)
      current == selectTabThread(global, chatId, threadId, tabId)
      ofChat == IF chatId \in DOMAIN tabState.tabThreads
                THEN tabState.tabThreads[chatId] ELSE <<>>
  IN updateTabState(global,
       [tabThreads |-> Put(tabState.tabThreads, chatId,
                           Put(ofChat, threadId, Merge(current, threadUpdate)))],
       tabId)

\* only the tab's thread is written
replaceTabThreadParamOfTab(global, chatId, threadId, paramName, newValue, tabId) ==
  LET g1 == global
  IN updateTabThread(g1, chatId, threadId, [x \in {paramName} |-> newValue], tabId)

replaceTabThreadParam(global, chatId, threadId, paramName, newValue, tabId) ==
  LET g1 == IF paramName = "viewportIds"
            THEN replaceThreadParam(global, chatId, threadId, "lastViewportIds", newValue)
            ELSE global
  IN updateTabThread(g1, chatId, threadId, [x \in {paramName} |-> newValue], tabId)


updateCurrentMessageList(global, chatId, threadId, type, shouldReplaceHistory, shouldReplaceLast, tabId) ==
  LET messageLists == selectTabState(global, tabId).messageLists
      n == Len(messageLists)
      entry == [chatId |-> Get(chatId), threadId |-> threadId, type |-> type]
      hasChat == IsDef(chatId) /\ Get(chatId) # ""
      newMessageLists ==
        IF shouldReplaceHistory \/ (IS_TEST /\ ~IS_MOCKED_CLIENT)
        THEN (IF hasChat THEN <<entry>> ELSE <<>>)
        ELSE IF hasChat
        THEN (IF n = 0 \/ messageLists[n] # entry
              THEN (IF n > 0 /\ (messageLists[n].chatId = TMP_CHAT_ID \/ shouldReplaceLast)
                    THEN SubSeq(messageLists, 1, n - 1) \o <<entry>>
                    ELSE messageLists \o <<entry>>)
              ELSE messageLists)
        ELSE SubSeq(messageLists, 1, n - 1)
  IN updateTabState(global, [messageLists |-> newMessageLists], tabId)

\* the entries the batch shares with the table are dropped
addChatMessagesByIdDroppingShared(global, chatId, newById) ==
  LET byId == selectChatMessages(global, chatId)
      old == IF IsDef(byId) THEN Get(byId) ELSE <<>>
  IN replaceChatMessages(global, chatId,
       Merge(omit(newById, DOMAIN old), omit(old, DOMAIN newById)))

addChatMessagesById(global, chatId, newById) ==
  LET byId == selectChatMessages(global, chatId)
  IN IF IsDef(byId) /\ \A newId \in DOMAIN newById : newId \in DOMAIN Get(byId)
     THEN global
     ELSE replaceChatMessages(global, chatId,
            Merge(newById, IF IsDef(byId) THEN Get(byId) ELSE <<>>))

\* the thread an info links to: the discussion thread named by a comments info,
\* or the channel post a message thread originates from
LinkedOf(info) ==
  IF info.isCommentsInfo = Some(TRUE)
  THEN (IF IsDef(info.threadId)
        THEN {<<Get(info.chatId), Get(info.threadId)>>} ELSE {})
  ELSE IF IsDef(info.fromChannelId) /\ IsDef(info.fromMessageId)
  THEN {<<Get(info.fromChannelId), Get(info.fromMessageId)>>}
  ELSE {}

MirroredFields == {"messagesCount", "lastMessageId", "lastReadInboxMessageId"}

InfoOrEmpty(global, chatId, threadId) ==
  LET old == selectThreadInfo(global, chatId, threadId)
  IN IF IsDef(old) THEN Get(old) ELSE EmptyThreadInfo

\* updateThreadInfo with `hops` cascade steps along the links, each writing
\* the mirrored fields of the info it comes from, or the caller's update
CascadeInfo(global, chatId, threadId, update, hops, mirrored) ==
  LET step[i \in 0..hops] ==
        IF i = 0
        THEN [g |-> global, at |-> {<<chatId, threadId>>},
              info |-> Merge(InfoOrEmpty(global, chatId, threadId), update)]
        ELSE LET p == step[i - 1]
                 to == IF p.at = {} THEN {} ELSE LinkedOf(p.info)
             IN IF to = {} THEN [g |-> p.g, at |-> {}, info |-> p.info]
                ELSE LET y == Get(to)
                         info == Merge(InfoOrEmpty(global, y[1], y[2]),
                                       IF mirrored THEN pick(p.info, MirroredFields)
                                       ELSE update)
                     IN [g |-> replaceThreadParam(p.g, y[1], y[2], "threadInfo", Some(info)),
                         at |-> to, info |-> info]
  IN replaceThreadParam(step[hops].g, chatId, threadId, "threadInfo",
                        Some(Merge(InfoOrEmpty(global, chatId, threadId), update)))

\* the linked thread is given the caller's update, not the mirrored fields
updateThreadInfoPassingUpdate(global, chatId, threadId, update, doNotUpdateLinked) ==
  CascadeInfo(global, chatId, threadId, update,
              IF doNotUpdateLinked THEN 0 ELSE 1, FALSE)

\* the suppression flag is ignored
updateThreadInfoIgnoringFlag(global, chatId, threadId, update, doNotUpdateLinked) ==
  CascadeInfo(global, chatId, threadId, update, 1, TRUE)

\* the cascade call is not suppressed, so it cascades once more
updateThreadInfoTwoHops(global, chatId, threadId, update, doNotUpdateLinked) ==
  CascadeInfo(global, chatId, threadId, update,
              IF doNotUpdateLinked THEN 0 ELSE 2, TRUE)

RECURSIVE updateThreadInfo(_, _, _, _, _)
updateThreadInfo(global, chatId, threadId, update, doNotUpdateLinked) ==
  LET old == selectThreadInfo(global, chatId, threadId)
      newThreadInfo == Merge(IF IsDef(old) THEN Get(old) ELSE EmptyThreadInfo, update)
      linkedUpdate == pick(newThreadInfo,
                           {"messagesCount", "lastMessageId", "lastReadInboxMessageId"})
      isComments == newThreadInfo.isCommentsInfo = Some(TRUE)
      hasThreadId == IsDef(newThreadInfo.threadId) /\ Get(newThreadInfo.threadId) # 0
      hasFrom == /\ IsDef(newThreadInfo.fromChannelId)
                 /\ Get(newThreadInfo.fromChannelId) # ""
                 /\ IsDef(newThreadInfo.fromMessageId)
                 /\ Get(newThreadInfo.fromMessageId) # 0
      g1 == IF doNotUpdateLinked THEN global
            ELSE IF isComments
            THEN (IF hasThreadId
                  THEN updateThreadInfo(global, Get(newThreadInfo.chatId),
                                        Get(newThreadInfo.threadId), linkedUpdate, TRUE)
                  ELSE global)
            ELSE IF hasFrom
            THEN updateThreadInfo(global, Get(newThreadInfo.fromChannelId),
                                  Get(newThreadInfo.fromMessageId), linkedUpdate, TRUE)
            ELSE global
  IN replaceThreadParam(g1, chatId, threadId, "threadInfo", Some(newThreadInfo))

\* the ids listed before are not looked at
updateListedIdsReplacing(global, chatId, threadId, idsUpdate) ==
  replaceThreadParam(global, chatId, threadId, "listedIds",
                     Some(orderHistoryIds(idsUpdate)))

\* the new ids are appended as they came
updateListedIdsAppending(global, chatId, threadId, idsUpdate) ==
  LET listedIds == selectListedIds(global, chatId, threadId)
      newIds == IF IsDef(listedIds) /\ Len(Get(listedIds)) > 0
                THEN FilterSeq(idsUpdate, Range(idsUpdate) \ Range(Get(listedIds)))
                ELSE idsUpdate
  IN IF IsDef(listedIds) /\ Len(newIds) = 0
     THEN global
     ELSE replaceThreadParam(global, chatId, threadId, "listedIds",
            Some((IF IsDef(listedIds) THEN Get(listedIds) ELSE <<>>) \o newIds))

updateListedIds(global, chatId, threadId, idsUpdate) ==
  LET listedIds == selectListedIds(global, chatId, threadId)
      newIds == IF IsDef(listedIds) /\ Len(Get(listedIds)) > 0
                THEN FilterSeq(idsUpdate, Range(idsUpdate) \ Range(Get(listedIds)))
                ELSE idsUpdate
  IN IF IsDef(listedIds) /\ Len(newIds) = 0
     THEN global
     ELSE replaceThreadParam(global, chatId, threadId, "listedIds",
            Some(orderHistoryIds((IF IsDef(listedIds) THEN Get(listedIds) ELSE <<>>)
                                 \o newIds)))

\* `list` is an array reference: index i names the i-th stored range, and 0 an
\* array that is not one of the stored ranges
removeOutlyingList(global, chatId, threadId, i) ==
  LET outlyingLists == selectOutlyingLists(global, chatId, threadId)
  IN IF ~IsDef(outlyingLists)
     THEN global
     ELSE LET ls == Get(outlyingLists)
              newOutlyingLists ==
                IF i \in 1..Len(ls)
                THEN SubSeq(ls, 1, i - 1) \o SubSeq(ls, i + 1, Len(ls))
                ELSE ls
          IN replaceThreadParam(global, chatId, threadId, "outlyingLists",
                                Some(newOutlyingLists))

\* helpers mergeIdRanges: the sorted candidate is folded against the ranges; a
\* range it overlaps or abuts is joined with it into one sorted, unique range
mergeIdRanges(ranges, idsUpdate) ==
  LET touches(r, c) ==
        /\ Len(r) > 0
        /\ Len(c) > 0
        /\ c[1] <= r[Len(r)] + 1
        /\ c[Len(c)] + 1 >= r[1]
      step[i \in 0..Len(ranges)] ==
        IF i = 0 THEN [kept |-> <<>>, cand |-> orderHistoryIds(idsUpdate)]
        ELSE LET p == step[i - 1]
             IN IF touches(ranges[i], p.cand)
                THEN [kept |-> p.kept, cand |-> orderHistoryIds(ranges[i] \o p.cand)]
                ELSE [kept |-> Append(p.kept, ranges[i]), cand |-> p.cand]
      done == step[Len(ranges)]
  IN Append(done.kept, done.cand)

\* the batch is appended as a range of its own
updateOutlyingListsAppending(global, chatId, threadId, idsUpdate) ==
  IF Len(idsUpdate) = 0 THEN global
  ELSE LET outlyingLists == selectOutlyingLists(global, chatId, threadId)
       IN replaceThreadParam(global, chatId, threadId, "outlyingLists",
            Some(Append(IF IsDef(outlyingLists) THEN Get(outlyingLists) ELSE <<>>,
                        orderHistoryIds(idsUpdate))))

\* the batch is joined with the first range it overlaps or abuts only
updateOutlyingListsJoiningOne(global, chatId, threadId, idsUpdate) ==
  IF Len(idsUpdate) = 0 THEN global
  ELSE LET sel == selectOutlyingLists(global, chatId, threadId)
           ranges == IF IsDef(sel) THEN Get(sel) ELSE <<>>
           c == orderHistoryIds(idsUpdate)
           hit == {i \in 1..Len(ranges) :
                     /\ Len(ranges[i]) > 0
                     /\ c[1] <= ranges[i][Len(ranges[i])] + 1
                     /\ c[Len(c)] + 1 >= ranges[i][1]}
           first == IF hit = {} THEN 0 ELSE CHOOSE i \in hit : \A j \in hit : i <= j
       IN replaceThreadParam(global, chatId, threadId, "outlyingLists",
            Some(IF first = 0 THEN Append(ranges, c)
                 ELSE [ranges EXCEPT ![first] = orderHistoryIds(@ \o c)]))

\* the batch is joined with the ranges it shares an id with
updateOutlyingListsOverlapOnly(global, chatId, threadId, idsUpdate) ==
  IF Len(idsUpdate) = 0 THEN global
  ELSE LET sel == selectOutlyingLists(global, chatId, threadId)
           ranges == IF IsDef(sel) THEN Get(sel) ELSE <<>>
           hit == {i \in 1..Len(ranges) : Range(ranges[i]) \cap Range(idsUpdate) # {}}
       IN replaceThreadParam(global, chatId, threadId, "outlyingLists",
            Some(Append(FilterSeq(ranges, {ranges[i] : i \in (1..Len(ranges)) \ hit}),
                        orderHistoryIds(idsUpdate \o
                          SortedSeqOf(UNION {Range(ranges[i]) : i \in hit})))))

updateOutlyingLists(global, chatId, threadId, idsUpdate) ==
  IF Len(idsUpdate) = 0 THEN global
  ELSE LET outlyingLists == selectOutlyingLists(global, chatId, threadId)
           newOutlyingLists ==
             mergeIdRanges(IF IsDef(outlyingLists) THEN Get(outlyingLists) ELSE <<>>,
                           idsUpdate)
       IN replaceThreadParam(global, chatId, threadId, "outlyingLists",
                             Some(newOutlyingLists))

\* the window is cut only once it is over the limit
addViewportIdOverLimit(global, chatId, threadId, newId, tabId) ==
  LET sel == selectViewportIds(global, chatId, threadId, tabId)
      viewportIds == IF IsDef(sel) THEN Get(sel) ELSE <<>>
  IN IF newId \in Range(viewportIds)
     THEN global
     ELSE LET newIds ==
                orderHistoryIds(
                  (IF Len(viewportIds) <= MESSAGE_LIST_VIEWPORT_LIMIT
                   THEN viewportIds
                   ELSE SliceLast(viewportIds, MESSAGE_LIST_SLICE \div 2))
                  \o <<newId>>)
          IN replaceTabThreadParam(global, chatId, threadId, "viewportIds",
                                   Some(newIds), tabId)

\* the new id is put at the end of the window
addViewportIdAppending(global, chatId, threadId, newId, tabId) ==
  LET sel == selectViewportIds(global, chatId, threadId, tabId)
      viewportIds == IF IsDef(sel) THEN Get(sel) ELSE <<>>
  IN IF newId \in Range(viewportIds)
     THEN global
     ELSE LET newIds ==
                (
                  (IF Len(viewportIds) < MESSAGE_LIST_VIEWPORT_LIMIT
                   THEN viewportIds
                   ELSE SliceLast(viewportIds, MESSAGE_LIST_SLICE \div 2))
                  \o <<newId>>)
          IN replaceTabThreadParam(global, chatId, threadId, "viewportIds",
                                   Some(newIds), tabId)

addViewportId(global, chatId, threadId, newId, tabId) ==
  LET sel == selectViewportIds(global, chatId, threadId, tabId)
      viewportIds == IF IsDef(sel) THEN Get(sel) ELSE <<>>
  IN IF newId \in Range(viewportIds)
     THEN global
     ELSE LET newIds ==
                orderHistoryIds(
                  (IF Len(viewportIds) < MESSAGE_LIST_VIEWPORT_LIMIT
                   THEN viewportIds
                   ELSE SliceLast(viewportIds, MESSAGE_LIST_SLICE \div 2))
                  \o <<newId>>)
          IN replaceTabThreadParam(global, chatId, threadId, "viewportIds",
                                   Some(newIds), tabId)

\* the replacement is stored in the order it was given
safeReplaceViewportIdsAsGiven(global, chatId, threadId, newViewportIds, tabId) ==
  LET sel == selectViewportIds(global, chatId, threadId, tabId)
      currentIds == IF IsDef(sel) THEN Get(sel) ELSE <<>>
      newIds == newViewportIds
  IN replaceTabThreadParam(global, chatId, threadId, "viewportIds",
       Some(IF areSortedArraysEqual(currentIds, newIds) THEN currentIds ELSE newIds),
       tabId)

safeReplaceViewportIds(global, chatId, threadId, newViewportIds, tabId) ==
  LET sel == selectViewportIds(global, chatId, threadId, tabId)
      currentIds == IF IsDef(sel) THEN Get(sel) ELSE <<>>
      newIds == orderHistoryIds(newViewportIds)
  IN replaceTabThreadParam(global, chatId, threadId, "viewportIds",
       Some(IF areSortedArraysEqual(currentIds, newIds) THEN currentIds ELSE newIds),
       tabId)

safeReplacePinnedIds(global, chatId, threadId, newPinnedIds) ==
  LET sel == selectPinnedIds(global, chatId, threadId)
      currentIds == IF IsDef(sel) THEN Get(sel) ELSE <<>>
      newIds == orderPinnedIds(newPinnedIds)
  IN replaceThreadParam(global, chatId, threadId, "pinnedIds",
       Some(IF areSortedArraysEqual(currentIds, newIds) THEN currentIds ELSE newIds))


\* deleteChatMessages, lines 296-310: the Map from thread id to the ids deleted
\* from it, in insertion order, as a sequence of [threadId, ids]
collectUpdatedThreads(global, byId, messageIds) ==
  LET step[i \in 0..Len(messageIds)] ==
        IF i = 0 THEN <<[threadId |-> MAIN_THREAD_ID, ids |-> messageIds]>>
        ELSE LET m == step[i - 1]
                 messageId == messageIds[i]
             IN IF messageId \notin DOMAIN byId THEN m
                ELSE LET threadId == selectThreadIdFromMessage(global, byId[messageId])
                     IN IF ~IsDef(threadId) \/ Get(threadId) = 0
                           \/ Get(threadId) = MAIN_THREAD_ID
                        THEN m
                        ELSE LET at == {k \in 1..Len(m) : m[k].threadId = Get(threadId)}
                             IN IF at = {}
                                THEN Append(m, [threadId |-> Get(threadId),
                                                ids |-> <<messageId>>])
                                ELSE [m EXCEPT ![CHOOSE k \in at : TRUE].ids =
                                                 Append(@, messageId)]
  IN step[Len(messageIds)]

\* deleteChatMessages, lines 312-314: Object.values(pickTruthy(byId, messageIds))
\* filtered by forwardInfo?.isLinkedChannelPost, in ascending key order
collectDeletedForwardedPosts(byId, messageIds) ==
  LET posts == {id \in Range(messageIds) \cap DOMAIN byId :
                  /\ IsDef(Field(byId[id], "forwardInfo"))
                  /\ Get(byId[id].forwardInfo).isLinkedChannelPost}
      order == SortedSeqOf(posts)
  IN [i \in 1..Len(order) |-> byId[order[i]]]

\* an emptied window is stored as it is
deleteFromViewportsKeepingEmpty(global, chatId, threadId, messageIds) ==
  LET tabs == SortedSeqOf(DOMAIN global.byTabId)
      step[i \in 0..Len(tabs)] ==
        IF i = 0 THEN global
        ELSE LET g == step[i - 1]
                 viewportIds == selectViewportIds(g, chatId, threadId, tabs[i])
             IN IF ~IsDef(viewportIds) THEN g
                ELSE LET newViewportIds == excludeSortedArray(Get(viewportIds), messageIds)
                     IN replaceTabThreadParam(g, chatId, threadId, "viewportIds",
                          Some(newViewportIds),
                          tabs[i])
  IN step[Len(tabs)]

\* deleteChatMessages, lines 341-354: the viewport of every tab for the thread
deleteFromViewports(global, chatId, threadId, messageIds) ==
  LET tabs == SortedSeqOf(DOMAIN global.byTabId)
      step[i \in 0..Len(tabs)] ==
        IF i = 0 THEN global
        ELSE LET g == step[i - 1]
                 viewportIds == selectViewportIds(g, chatId, threadId, tabs[i])
             IN IF ~IsDef(viewportIds) THEN g
                ELSE LET newViewportIds == excludeSortedArray(Get(viewportIds), messageIds)
                     IN replaceTabThreadParam(g, chatId, threadId, "viewportIds",
                          IF Len(newViewportIds) = 0 THEN Undefined
                          ELSE Some(newViewportIds),
                          tabs[i])
  IN step[Len(tabs)]

\* an id is taken out of listedIds at its index, and the last id when the
\* list does not hold it
deleteFromThreadAtIndex(global, chatId, threadId, threadMessageIds, messageIds) ==
  LET threadInfo == selectThreadInfo(global, chatId, threadId)
      oldListedIds == selectListedIds(global, chatId, threadId)
      oldPinnedIds == selectPinnedIds(global, chatId, threadId)
      oldOutlyingLists == selectOutlyingLists(global, chatId, threadId)
      oldMessageCount == IF IsDef(threadInfo) THEN Get(threadInfo).messagesCount
                         ELSE Undefined
      spliced[i \in 0..Len(threadMessageIds)] ==
        IF i = 0 THEN Get(oldListedIds)
        ELSE LET l == spliced[i - 1]
             IN IF threadMessageIds[i] \in Range(l)
                THEN FilterSeq(l, Range(l) \ {threadMessageIds[i]})
                ELSE SubSeq(l, 1, Len(l) - 1)
      listedIds == IF IsDef(oldListedIds)
                   THEN Some(spliced[Len(threadMessageIds)])
                   ELSE oldListedIds
      outlyingLists ==
        IF IsDef(oldOutlyingLists)
        THEN Some([k \in 1..Len(Get(oldOutlyingLists)) |->
                     excludeSortedArray(Get(oldOutlyingLists)[k], threadMessageIds)])
        ELSE oldOutlyingLists
      pinnedIds == IF IsDef(oldPinnedIds)
                   THEN Some(excludeSortedArray(Get(oldPinnedIds),
                                                orderPinnedIds(threadMessageIds)))
                   ELSE oldPinnedIds
      nonLocalMessageCount ==
        Len(FilterSeq(threadMessageIds,
                      {id \in Range(threadMessageIds) : ~isLocalMessageId(id)}))
      newMessageCount == {c - nonLocalMessageCount : c \in oldMessageCount}
      g1 == deleteFromViewports(global, chatId, threadId, messageIds)
      g2 == replaceThreadParam(g1, chatId, threadId, "listedIds", listedIds)
      g3 == replaceThreadParam(g2, chatId, threadId, "outlyingLists", outlyingLists)
      g4 == replaceThreadParam(g3, chatId, threadId, "pinnedIds", pinnedIds)
  IN IF IsDef(threadInfo) /\ IsDef(newMessageCount)
     THEN updateThreadInfo(g4, chatId, threadId,
                           [messagesCount |-> newMessageCount], FALSE)
     ELSE g4

\* deleteChatMessages, lines 316-365: one entry of updatedThreads
deleteFromThread(global, chatId, threadId, threadMessageIds, messageIds) ==
  LET threadInfo == selectThreadInfo(global, chatId, threadId)
      oldListedIds == selectListedIds(global, chatId, threadId)
      oldPinnedIds == selectPinnedIds(global, chatId, threadId)
      oldOutlyingLists == selectOutlyingLists(global, chatId, threadId)
      oldMessageCount == IF IsDef(threadInfo) THEN Get(threadInfo).messagesCount
                         ELSE Undefined
      listedIds == IF IsDef(oldListedIds)
                   THEN Some(excludeSortedArray(Get(oldListedIds), threadMessageIds))
                   ELSE oldListedIds
      outlyingLists ==
        IF IsDef(oldOutlyingLists)
        THEN Some([k \in 1..Len(Get(oldOutlyingLists)) |->
                     excludeSortedArray(Get(oldOutlyingLists)[k], threadMessageIds)])
        ELSE oldOutlyingLists
      pinnedIds == IF IsDef(oldPinnedIds)
                   THEN Some(excludeSortedArray(Get(oldPinnedIds),
                                                orderPinnedIds(threadMessageIds)))
                   ELSE oldPinnedIds
      nonLocalMessageCount ==
        Len(FilterSeq(threadMessageIds,
                      {id \in Range(threadMessageIds) : ~isLocalMessageId(id)}))
      newMessageCount == {c - nonLocalMessageCount : c \in oldMessageCount}
      g1 == deleteFromViewports(global, chatId, threadId, messageIds)
      g2 == replaceThreadParam(g1, chatId, threadId, "listedIds", listedIds)
      g3 == replaceThreadParam(g2, chatId, threadId, "outlyingLists", outlyingLists)
      g4 == replaceThreadParam(g3, chatId, threadId, "pinnedIds", pinnedIds)
  IN IF IsDef(threadInfo) /\ IsDef(newMessageCount)
     THEN updateThreadInfo(g4, chatId, threadId,
                           [messagesCount |-> newMessageCount], FALSE)
     ELSE g4

\* the current list is reset whatever its type
deleteForwardedPostsOfAnyType(global, chatId, deletedForwardedPosts) ==
  LET tabs == SortedSeqOf(DOMAIN global.byTabId)
      perTab(g0, tabId) ==
        LET currentMessageList == selectCurrentMessageList(g0, tabId)
            canDeleteCurrentThread ==
              /\ IsDef(currentMessageList)
              /\ Get(currentMessageList).chatId = chatId
            step[j \in 0..Len(deletedForwardedPosts)] ==
              IF j = 0 THEN g0
              ELSE LET g == step[j - 1]
                       message == deletedForwardedPosts[j]
                       forwardInfo == Get(message.forwardInfo)
                       originalPost == selectChatMessage(g, forwardInfo.fromChatId,
                                                         forwardInfo.fromMessageId)
                       ga == IF canDeleteCurrentThread
                                /\ Get(currentMessageList).threadId = message.id
                             THEN updateCurrentMessageList(g, Some(chatId), MAIN_THREAD_ID,
                                                           "thread", FALSE, FALSE, tabId)
                             ELSE g
                   IN IF IsDef(originalPost)
                      THEN updateThread(ga, forwardInfo.fromChatId,
                                        forwardInfo.fromMessageId, Undefined)
                      ELSE ga
        IN step[Len(deletedForwardedPosts)]
      loop[i \in 0..Len(tabs)] ==
        IF i = 0 THEN global ELSE perTab(loop[i - 1], tabs[i])
  IN IF Len(deletedForwardedPosts) > 0 THEN loop[Len(tabs)] ELSE global

\* deleteChatMessages, lines 367-386: the deleted linked channel posts, per tab
deleteForwardedPosts(global, chatId, deletedForwardedPosts) ==
  LET tabs == SortedSeqOf(DOMAIN global.byTabId)
      perTab(g0, tabId) ==
        LET currentMessageList == selectCurrentMessageList(g0, tabId)
            canDeleteCurrentThread ==
              /\ IsDef(currentMessageList)
              /\ Get(currentMessageList).chatId = chatId
              /\ Get(currentMessageList).type = "thread"
            step[j \in 0..Len(deletedForwardedPosts)] ==
              IF j = 0 THEN g0
              ELSE LET g == step[j - 1]
                       message == deletedForwardedPosts[j]
                       forwardInfo == Get(message.forwardInfo)
                       originalPost == selectChatMessage(g, forwardInfo.fromChatId,
                                                         forwardInfo.fromMessageId)
                       ga == IF canDeleteCurrentThread
                                /\ Get(currentMessageList).threadId = message.id
                             THEN updateCurrentMessageList(g, Some(chatId), MAIN_THREAD_ID,
                                                           "thread", FALSE, FALSE, tabId)
                             ELSE g
                   IN IF IsDef(originalPost)
                      THEN updateThread(ga, forwardInfo.fromChatId,
                                        forwardInfo.fromMessageId, Undefined)
                      ELSE ga
        IN step[Len(deletedForwardedPosts)]
      loop[i \in 0..Len(tabs)] ==
        IF i = 0 THEN global ELSE perTab(loop[i - 1], tabs[i])
  IN IF Len(deletedForwardedPosts) > 0 THEN loop[Len(tabs)] ELSE global

deleteChatMessages(global, chatId, messageIdsArg) ==
  LET sel == selectChatMessages(global, chatId)
  IN IF ~IsDef(sel) THEN global
     ELSE LET byId == Get(sel)
              messageIds == orderHistoryIds(messageIdsArg)
              updatedThreads == collectUpdatedThreads(global, byId, messageIds)
              deletedForwardedPosts == collectDeletedForwardedPosts(byId, messageIds)
              loop[i \in 0..Len(updatedThreads)] ==
                IF i = 0 THEN global
                ELSE deleteFromThread(loop[i - 1], chatId, updatedThreads[i].threadId,
                                      updatedThreads[i].ids, messageIds)
              g1 == loop[Len(updatedThreads)]
              g2 == deleteForwardedPosts(g1, chatId, deletedForwardedPosts)
          IN replaceChatMessages(g2, chatId, omit(byId, Range(messageIds)))


-----------------------------------------------------------------------------
(* The state machine: one action per reducer call *)

Call(op, chatId, threadId, tabId, ids, update, flag) ==
  [op |-> op, chatId |-> chatId, threadId |-> threadId, tabId |-> tabId,
   ids |-> ids, update |-> update, flag |-> flag]

NoCall == Call("init", "", 0, 0, <<>>, <<>>, FALSE)

\* the step that takes the state to `global`: `last` records the call and
\* `before`, the value the call found in the place it writes
Becomes(global, call, before) ==
  /\ byChatId' = global.byChatId
  /\ byTabId' = global.byTabId
  /\ scheduledByChatId' = global.scheduledByChatId
  /\ last' = [call |-> call, before |-> before]

EmptyTab(tabId) ==
  [id |-> tabId, messageLists |-> <<>>, tabThreads |-> <<>>,
   selectedMessages |-> Undefined]

EmptyGlobal(tabs) ==
  [byChatId |-> <<>>, byTabId |-> [t \in tabs |-> EmptyTab(t)],
   scheduledByChatId |-> <<>>]

Starts(global) ==
  /\ byChatId = global.byChatId
  /\ byTabId = global.byTabId
  /\ scheduledByChatId = global.scheduledByChatId
  /\ last = [call |-> NoCall, before |-> Undefined]

-----------------------------------------------------------------------------
(* Thread infos of linked threads: updateThreadInfo *)

ThreadA == <<"c1", 1>>
ThreadB == <<"c2", 1>>
ThreadC == <<"c1", 2>>
LinkedThreads == {ThreadA, ThreadB, ThreadC}

Counts == {1}

\* a comments info stored at a channel post names the discussion thread y
CommentsInfo(y) ==
  [isCommentsInfo |-> Some(TRUE), chatId |-> Some(y[1]), threadId |-> Some(y[2])]

\* a message thread info of thread x that originates from the channel post y
MessageThreadInfo(x, y) ==
  [isCommentsInfo |-> Some(FALSE), chatId |-> Some(x[1]), threadId |-> Some(x[2]),
   fromChannelId |-> Some(y[1]), fromMessageId |-> Some(y[2])]

PlainThreadInfo(x) ==
  [isCommentsInfo |-> Some(FALSE), chatId |-> Some(x[1]), threadId |-> Some(x[2])]

InfoSnapshots(x) ==
  IF x = ThreadA THEN {CommentsInfo(y) : y \in {ThreadA, ThreadB}}
  ELSE IF x = ThreadB
  THEN {PlainThreadInfo(x)} \cup {MessageThreadInfo(x, y) : y \in {ThreadA, ThreadC}}
  ELSE {PlainThreadInfo(x)}

InfoUpdates(x) ==
  InfoSnapshots(x)
    \cup {[messagesCount |-> Some(n)] : n \in Counts}
    \cup {[lastMessageId |-> Some(1)]}

\* a store with messages, lists and a viewport, built by the reducers
InfoStart ==
  LET g0 == addChatMessagesById(EmptyGlobal({1}), "c1", Messages("c1", {1, 2}))
      g1 == updateListedIds(g0, "c1", 1, <<1, 2>>)
      g2 == safeReplacePinnedIds(g1, "c1", 2, <<2>>)
      g3 == addViewportId(g2, "c1", 1, 1, 1)
  IN updateOutlyingLists(g3, "c1", MAIN_THREAD_ID, <<1>>)

InitInfo == Starts(InfoStart)

UpdateThreadInfo ==
  \E x \in LinkedThreads : \E u \in InfoUpdates(x) :
    Becomes(updateThreadInfo(Global, x[1], x[2], u, FALSE),
            Call("updateThreadInfo", x[1], x[2], 0, <<>>, u, FALSE),
            selectThreadInfo(Global, x[1], x[2]))

UpdateThreadInfoNotLinked ==
  \E x \in LinkedThreads : \E u \in InfoUpdates(x) :
    Becomes(updateThreadInfo(Global, x[1], x[2], u, TRUE),
            Call("updateThreadInfo", x[1], x[2], 0, <<>>, u, TRUE),
            selectThreadInfo(Global, x[1], x[2]))

NextInfo == UpdateThreadInfo \/ UpdateThreadInfoNotLinked

SpecInfo == InitInfo /\ [][NextInfo]_vars


-----------------------------------------------------------------------------
(* Vocabulary of the properties *)

GlobalNext ==
  [byChatId |-> byChatId', byTabId |-> byTabId',
   scheduledByChatId |-> scheduledByChatId']

\* every (chat, thread) with an entry in the store
ThreadsOf(global) ==
  {<<c, t>> : c \in DOMAIN global.byChatId, t \in ThreadIds} \cap
  {x \in Chats \X ThreadIds :
     x[1] \in DOMAIN global.byChatId
     /\ x[2] \in DOMAIN global.byChatId[x[1]].threadsById}

\* the entries of a chat's message table; a chat without a table has none
TableOf(global, chatId) ==
  IF IsDef(selectChatMessages(global, chatId))
  THEN Get(selectChatMessages(global, chatId)) ELSE <<>>

InfoChanged(g, h) ==
  {x \in ThreadsOf(g) \cup ThreadsOf(h) :
     selectThreadInfo(g, x[1], x[2]) # selectThreadInfo(h, x[1], x[2])}

ListsOf(thread) == [thread EXCEPT !.threadInfo = Undefined]

-----------------------------------------------------------------------------
(* C5..C7: updateThreadInfo *)

\* C5: after updateThreadInfo without doNotUpdateLinked on a thread whose
\* resulting info links to a thread (a comments info with a threadId, or
\* fromChannelId and fromMessageId), the linked thread's messagesCount,
\* lastMessageId and lastReadInboxMessageId equal the updated thread's.
C5_CascadeConsistency ==
  (last.call.op = "updateThreadInfo" /\ ~last.call.flag) =>
    LET info == Get(selectThreadInfo(Global, last.call.chatId, last.call.threadId))
    IN \A y \in LinkedOf(info) :
         /\ IsDef(selectThreadInfo(Global, y[1], y[2]))
         /\ \A k \in MirroredFields :
              Get(selectThreadInfo(Global, y[1], y[2]))[k] = info[k]

\* a cascading call whose update names none of the mirrored fields has given
\* another thread the target's count
C5_Witness ==
  /\ last.call.op = "updateThreadInfo" /\ ~last.call.flag
  /\ DOMAIN last.call.update \cap MirroredFields = {}
  /\ LET info == Get(selectThreadInfo(Global, last.call.chatId, last.call.threadId))
     IN /\ IsDef(info.messagesCount)
        /\ \E y \in LinkedOf(info) :
             /\ y # <<last.call.chatId, last.call.threadId>>
             /\ Get(selectThreadInfo(Global, y[1], y[2])).messagesCount = info.messagesCount

C7_OneHop ==
  [][(last'.call.op = "updateThreadInfo" /\ ~last'.call.flag) =>
       LET target == <<last'.call.chatId, last'.call.threadId>>
           info == Get(selectThreadInfo(GlobalNext, target[1], target[2]))
       IN /\ InfoChanged(Global, GlobalNext) \subseteq {target} \cup LinkedOf(info)
          /\ Cardinality(InfoChanged(Global, GlobalNext)) <= 2]_vars

\* a cascading call whose linked thread links on to a third thread (or back to
\* the target) that holds another count than the one mirrored
C7_Witness ==
  /\ last.call.op = "updateThreadInfo" /\ ~last.call.flag
  /\ LET target == <<last.call.chatId, last.call.threadId>>
         info == Get(selectThreadInfo(Global, target[1], target[2]))
     IN \E y \in LinkedOf(info) :
          /\ y # target
          /\ \E z \in LinkedOf(InfoOrEmpty(Global, y[1], y[2])) :
               /\ z # y
               /\ InfoOrEmpty(Global, z[1], z[2]).messagesCount
                    # InfoOrEmpty(Global, y[1], y[2]).messagesCount


-----------------------------------------------------------------------------
(* The viewport windows of two tabs on the main thread of c1 *)

\* enough ids to fill a window beyond the limit and add one more
ViewportIds == 1..(MESSAGE_LIST_VIEWPORT_LIMIT + 2)

\* the arrays given to safeReplaceViewportIds: every run of consecutive ids
\* (the empty one included), and arrays out of order, with an id twice, with
\* a gap
ViewportArrays ==
  {SortedSeqOf(a..b) : a, b \in ViewportIds}
    \cup {<<2, 1>>, <<1, 1>>, <<1, 3>>}

ViewportDeletes ==
  {<<id>> : id \in ViewportIds} \cup {<<3, 3, 1>>}

InitViewport ==
  Starts(addChatMessagesById(EmptyGlobal(TabIds), "c1", <<>>))

AddViewportId ==
  \E newId \in ViewportIds, tabId \in TabIds :
    Becomes(addViewportId(Global, "c1", MAIN_THREAD_ID, newId, tabId),
            Call("addViewportId", "c1", MAIN_THREAD_ID, tabId, <<newId>>, <<>>, FALSE),
            selectViewportIds(Global, "c1", MAIN_THREAD_ID, tabId))

SafeReplaceViewportIds ==
  \E ids \in ViewportArrays, tabId \in TabIds :
    Becomes(safeReplaceViewportIds(Global, "c1", MAIN_THREAD_ID, ids, tabId),
            Call("safeReplaceViewportIds", "c1", MAIN_THREAD_ID, tabId, ids, <<>>, FALSE),
            Some(selectViewportIds(Global, "c1", MAIN_THREAD_ID, tabId)
                   = Some(orderHistoryIds(ids))))

DeleteViewportMessages ==
  \E ids \in ViewportDeletes :
    Becomes(deleteChatMessages(Global, "c1", ids),
            Call("deleteChatMessages", "c1", 0, 0, ids, <<>>, FALSE),
            Some([tabId \in TabIds |->
                    selectViewportIds(Global, "c1", MAIN_THREAD_ID, tabId)]))

NextViewport == AddViewportId \/ SafeReplaceViewportIds \/ DeleteViewportMessages

SpecViewport == InitViewport /\ [][NextViewport]_vars

\* every viewport of every tab, as a set of arrays
AllViewports(global) ==
  {Get(selectViewportIds(global, c, t, tabId)) :
     <<c, t, tabId>> \in
       {x \in Chats \X ThreadIds \X DOMAIN global.byTabId :
          IsDef(selectViewportIds(global, x[1], x[2], x[3]))}}

LastOf(s, n) == {s[i] : i \in {k \in 1..Len(s) : k > Len(s) - n}}

\* C2: addViewportId of an id not in the window leaves at most
\* MESSAGE_LIST_VIEWPORT_LIMIT ids: the prior ids and the new id when the
\* window was below the limit, the last MESSAGE_LIST_SLICE/2 prior ids and
\* the new id when it was at or above the limit.  Adding an id that is in
\* the window leaves the state as it was.
C2_AddViewportIdWindow ==
  [][last'.call.op = "addViewportId" =>
       LET c == last'.call
           sel == selectViewportIds(Global, c.chatId, c.threadId, c.tabId)
           prior == IF IsDef(sel) THEN Get(sel) ELSE <<>>
           newId == c.ids[1]
           after == selectViewportIds(GlobalNext, c.chatId, c.threadId, c.tabId)
       IN IF newId \in Range(prior)
          THEN GlobalNext = Global
          ELSE /\ IsDef(after)
               /\ Len(Get(after)) <= MESSAGE_LIST_VIEWPORT_LIMIT
               /\ Len(Get(after)) = Cardinality(Range(Get(after)))
               /\ Range(Get(after)) =
                    {newId} \cup
                    (IF Len(prior) >= MESSAGE_LIST_VIEWPORT_LIMIT
                     THEN LastOf(prior, MESSAGE_LIST_SLICE \div 2)
                     ELSE Range(prior))]_vars

\* an id was added to a window that held more than the limit
C2_Witness ==
  /\ last.call.op = "addViewportId"
  /\ IsDef(last.before)
  /\ Len(Get(last.before)) > MESSAGE_LIST_VIEWPORT_LIMIT
  /\ last.call.ids[1] \notin Range(Get(last.before))
  /\ Len(Get(selectViewportIds(Global, "c1", MAIN_THREAD_ID, last.call.tabId)))
       = (MESSAGE_LIST_SLICE \div 2) + 1

\* C3: every tab's viewportIds holds at most MESSAGE_LIST_VIEWPORT_LIMIT ids in
\* every state reached by addViewportId, safeReplaceViewportIds and
\* deleteChatMessages.
C3_ViewportCap ==
  \A v \in AllViewports(Global) : Len(v) <= MESSAGE_LIST_VIEWPORT_LIMIT


-----------------------------------------------------------------------------
(* The id lists of the threads of c1 *)

\* the outlying ranges a thread is let to hold; deletion leaves emptied ranges
\* in place, and this keeps their number finite
MaxRanges == 2

ListThreads == {MAIN_THREAD_ID, 1}

\* the arrays the calls are given: in order and out of order, with an id
\* twice, empty
ListedArrays(threadId) ==
  IF threadId = MAIN_THREAD_ID THEN {<<2>>, <<3, 1>>, <<2, 2, 1>>} ELSE {<<2, 3>>}

OutlyingArrays == {<<>>, <<1>>, <<3>>, <<2, 1>>}

PinnedArrays == {<<>>, <<2, 1>>, <<3, 3, 1>>}

DeletedArrays == {<<1>>, <<2>>, <<3>>, <<3, 1>>}

\* the table holds the post 1 and its comment 2; no message 3 has arrived
ListsStart == addChatMessagesById(EmptyGlobal({1}), "c1", Messages("c1", {1, 2}))

InitLists == Starts(ListsStart)

UpdateListedIds ==
  \E threadId \in ListThreads :
    \E ids \in ListedArrays(threadId) :
    Becomes(updateListedIds(Global, "c1", threadId, ids),
            Call("updateListedIds", "c1", threadId, 0, ids, <<>>, FALSE),
            selectListedIds(Global, "c1", threadId))

UpdateOutlyingLists ==
  \E ids \in OutlyingArrays :
    /\ LET lists == selectOutlyingLists(Global, "c1", MAIN_THREAD_ID)
       IN IsDef(lists) => Len(Get(lists)) < MaxRanges
    /\ Becomes(updateOutlyingLists(Global, "c1", MAIN_THREAD_ID, ids),
               Call("updateOutlyingLists", "c1", MAIN_THREAD_ID, 0, ids, <<>>, FALSE),
               Undefined)

RemoveOutlyingList ==
  \E i \in 0..MaxRanges :
    Becomes(removeOutlyingList(Global, "c1", MAIN_THREAD_ID, i),
            Call("removeOutlyingList", "c1", MAIN_THREAD_ID, 0, <<i>>, <<>>, FALSE),
            Undefined)

SafeReplacePinnedIds ==
  \E ids \in PinnedArrays :
    Becomes(safeReplacePinnedIds(Global, "c1", MAIN_THREAD_ID, ids),
            Call("safeReplacePinnedIds", "c1", MAIN_THREAD_ID, 0, ids, <<>>, FALSE),
            Undefined)

DeleteListedMessages ==
  \E ids \in DeletedArrays :
    Becomes(deleteChatMessages(Global, "c1", ids),
            Call("deleteChatMessages", "c1", 0, 0, ids, <<>>, FALSE),
            selectChatMessages(Global, "c1"))

NextLists ==
  \/ UpdateListedIds
  \/ UpdateOutlyingLists
  \/ RemoveOutlyingList
  \/ SafeReplacePinnedIds
  \/ DeleteListedMessages

SpecLists == InitLists /\ [][NextLists]_vars

StrictlyAscending(s) == \A i \in 1..(Len(s) - 1) : s[i] < s[i + 1]

\* the id arrays a thread holds: listedIds, each outlying range, pinnedIds
ArraysOf(thread) ==
  thread.listedIds \cup thread.pinnedIds
    \cup (IF IsDef(thread.outlyingLists) THEN Range(Get(thread.outlyingLists)) ELSE {})

ThreadOf(global, x) == global.byChatId[x[1]].threadsById[x[2]]

\* C4: in every state reached by updateListedIds, updateOutlyingLists,
\* removeOutlyingList, safeReplacePinnedIds and deleteChatMessages, whatever
\* the order and repetitions of the ids they are given, every thread's
\* listedIds, every range of its outlyingLists and its pinnedIds are strictly
\* ascending, with no id twice.
C4_SortInvariant ==
  \A x \in ThreadsOf(Global) :
    \A s \in ArraysOf(ThreadOf(Global, x)) : StrictlyAscending(s)

\* ids out of order, one of them twice, were merged into a list that now holds
\* several ids, next to two outlying ranges and a pinned list
C4_Witness ==
  /\ last.call.op = "updateListedIds"
  /\ last.call.ids = <<2, 2, 1>>
  /\ last.call.threadId = MAIN_THREAD_ID
  /\ LET thread == ThreadOf(Global, <<"c1", MAIN_THREAD_ID>>)
     IN /\ IsDef(thread.listedIds) /\ Len(Get(thread.listedIds)) >= 3
        /\ IsDef(thread.outlyingLists) /\ Len(Get(thread.outlyingLists)) = 2
        /\ IsDef(thread.pinnedIds) /\ Len(Get(thread.pinnedIds)) >= 2

\* C1: after deleteChatMessages(C, D) on a chat whose message table exists, no
\* thread of C holds an id of D in its listedIds, in a range of its
\* outlyingLists or in its pinnedIds, no tab holds an id of D in a viewport
\* of C, and the table of C holds no id of D.
C1_DeletionCompleteness ==
  (last.call.op = "deleteChatMessages" /\ IsDef(last.before)) =>
    LET C == last.call.chatId
        D == Range(last.call.ids)
    IN /\ \A x \in ThreadsOf(Global) :
            x[1] = C =>
              \A s \in ArraysOf(ThreadOf(Global, x)) : Range(s) \cap D = {}
       /\ \A tabId \in DOMAIN byTabId, t \in ThreadIds :
            LET v == selectViewportIds(Global, C, t, tabId)
            IN IsDef(v) => Range(Get(v)) \cap D = {}
       /\ DOMAIN TableOf(Global, C) \cap D = {}


-----------------------------------------------------------------------------
(* The message counts of the threads of c1 *)

\* the counts the server reports, and how far below zero a count is followed
\* (the code puts no floor under the count)
MaxCount == 2
MaxDeficit == 2

CountedThreads == {MAIN_THREAD_ID, 1}

CountedIds == {1, 2, 3}

\* the post 1, its comment 2 and the local message 3, listed in the main
\* thread; the comment listed in the thread of the post; both threads counted;
\* the tab shows the messages 1 and 2 in the main thread, and the comment and
\* the pinned message 2 in the thread of the post
CountsStart ==
  LET g1 == addChatMessagesById(EmptyGlobal({1}), "c1", Messages("c1", CountedIds))
      g2 == updateListedIds(g1, "c1", MAIN_THREAD_ID, <<1, 2, 3>>)
      g3 == updateListedIds(g2, "c1", 1, <<2>>)
      g4 == updateThreadInfo(g3, "c1", MAIN_THREAD_ID,
                             Merge(PlainThreadInfo(<<"c1", MAIN_THREAD_ID>>),
                                   [messagesCount |-> Some(MaxCount)]), FALSE)
      g5 == updateThreadInfo(g4, "c1", 1,
                             Merge(PlainThreadInfo(<<"c1", 1>>),
                                   [messagesCount |-> Some(1)]), FALSE)
      g6 == safeReplaceViewportIds(g5, "c1", MAIN_THREAD_ID, <<1, 2>>, 1)
      g7 == safeReplaceViewportIds(g6, "c1", 1, <<2>>, 1)
      g8 == safeReplacePinnedIds(g7, "c1", 1, <<2>>)
  IN updateOutlyingLists(g8, "c1", MAIN_THREAD_ID, <<1, 3>>)

InitCounts == Starts(CountsStart)

CountOf(global, chatId, threadId) ==
  LET info == selectThreadInfo(global, chatId, threadId)
  IN IF IsDef(info) THEN Get(info).messagesCount ELSE Undefined

AddCountedMessage ==
  \E id \in CountedIds :
    Becomes(addChatMessagesById(Global, "c1", Messages("c1", {id})),
            Call("addChatMessagesById", "c1", 0, 0, <<id>>, <<>>, FALSE),
            Undefined)

ListCountedMessage ==
  \E id \in CountedIds :
    Becomes(updateListedIds(Global, "c1", MAIN_THREAD_ID, <<id>>),
            Call("updateListedIds", "c1", MAIN_THREAD_ID, 0, <<id>>, <<>>, FALSE),
            Undefined)

ReportCount ==
  \E threadId \in CountedThreads, n \in 0..MaxCount :
    Becomes(updateThreadInfo(Global, "c1", threadId, [messagesCount |-> Some(n)], FALSE),
            Call("updateThreadInfo", "c1", threadId, 0, <<>>,
                 [messagesCount |-> Some(n)], FALSE),
            Undefined)

DeleteCountedMessages ==
  \E ids \in {<<1>>, <<2>>, <<3>>, <<2, 1>>, <<3, 1>>} :
    /\ \A threadId \in CountedThreads :
         \A c \in CountOf(Global, "c1", threadId) : c > -MaxDeficit
    /\ Becomes(deleteChatMessages(Global, "c1", ids),
               Call("deleteChatMessages", "c1", 0, 0, ids, <<>>, FALSE),
               selectChatMessages(Global, "c1"))

NextCounts ==
  AddCountedMessage \/ ListCountedMessage \/ ReportCount \/ DeleteCountedMessages

SpecCounts == InitCounts /\ [][NextCounts]_vars

\* the ids the call removes from thread x: those whose message is in the table
\* and in the thread (every message is in the main thread), and those held in
\* one of the thread's arrays
RemovedFrom(global, x, D) ==
  {id \in D :
     \/ /\ id \in DOMAIN TableOf(global, x[1])
        /\ \/ x[2] = MAIN_THREAD_ID
           \/ selectThreadIdFromMessage(global, TableOf(global, x[1])[id]) = Some(x[2])
     \/ /\ x \in ThreadsOf(global)
        /\ \E s \in ArraysOf(ThreadOf(global, x)) : id \in Range(s)}

\* C8: for every thread with a threadInfo that has a messagesCount, the count
\* after deleteChatMessages is the count before minus the number of non-local
\* ids the call removed from that thread; a thread without threadInfo has none
\* after the call.
C8_CountBookkeeping ==
  [][(last'.call.op = "deleteChatMessages" /\ IsDef(last'.before)) =>
       \A t \in ThreadIds :
         LET x == <<last'.call.chatId, t>>
             D == Range(last'.call.ids)
             before == CountOf(Global, x[1], t)
             removed == {id \in RemovedFrom(Global, x, D) : ~isLocalMessageId(id)}
         IN /\ IsDef(before) =>
                 CountOf(GlobalNext, x[1], t) = Some(Get(before) - Cardinality(removed))
            /\ ~IsDef(selectThreadInfo(Global, x[1], t)) =>
                 ~IsDef(selectThreadInfo(GlobalNext, x[1], t))]_vars


-----------------------------------------------------------------------------
(* The discussion group c1 of the channel c2, open in up to two tabs *)

\* the messages that arrive in c1: the linked channel post 1 and the forward 3,
\* which is not a linked post; in c2: the original post 1
ArrivingIds(chatId) == IF chatId = "c1" THEN {1, 3} ELSE {1}

\* the message lists a tab opens
OpenedLists ==
  {[chatId |-> "c1", threadId |-> 1, type |-> "thread"],
   [chatId |-> "c1", threadId |-> 1, type |-> "pinned"],
   [chatId |-> "c1", threadId |-> 3, type |-> "thread"],
   [chatId |-> "c2", threadId |-> 1, type |-> "thread"]}

Init == \E tabs \in {{}, {1}, TabIds} : Starts(EmptyGlobal(tabs))

AddChatMessagesById ==
  \E chatId \in Chats :
    \E id \in ArrivingIds(chatId) :
      Becomes(addChatMessagesById(Global, chatId, Messages(chatId, {id})),
              Call("addChatMessagesById", chatId, 0, 0, <<id>>, <<>>, FALSE),
              Undefined)

UpdateCurrentMessageList ==
  \E tabId \in DOMAIN byTabId, list \in OpenedLists :
    Becomes(updateCurrentMessageList(Global, Some(list.chatId), list.threadId,
                                     list.type, TRUE, FALSE, tabId),
            Call("updateCurrentMessageList", list.chatId, list.threadId, tabId,
                 <<>>, <<>>, TRUE),
            Undefined)

\* the comments info of the channel post c2/1, which names the thread c1/1
UpdateCommentsInfo ==
  Becomes(updateThreadInfo(Global, "c2", 1, CommentsInfo(ThreadA), FALSE),
          Call("updateThreadInfo", "c2", 1, 0, <<>>, CommentsInfo(ThreadA), FALSE),
          Undefined)

DeleteChatMessages ==
  \E ids \in {<<1>>, <<3>>, <<3, 1>>} :
    Becomes(deleteChatMessages(Global, "c1", ids),
            Call("deleteChatMessages", "c1", 0, 0, ids, <<>>, FALSE),
            selectChatMessages(Global, "c1"))

Next ==
  \/ AddChatMessagesById
  \/ UpdateCurrentMessageList
  \/ UpdateCommentsInfo
  \/ DeleteChatMessages

Spec == Init /\ [][Next]_vars

\* the linked channel posts among the messages `ids` of a table
LinkedPosts(byId, ids) ==
  {id \in ids \cap DOMAIN byId :
     /\ IsDef(byId[id].forwardInfo)
     /\ Get(byId[id].forwardInfo).isLinkedChannelPost}

DefaultList(chatId) == [chatId |-> chatId, threadId |-> MAIN_THREAD_ID, type |-> "thread"]

\* C9: when deleteChatMessages(chatId, ids) deletes a linked channel post, every
\* tab whose current message list is (chatId, the post's id, 'thread') has the
\* chat's main thread as its current message list after the call; every other
\* tab keeps its current message list.
C9_ActiveViewReset ==
  [][(last'.call.op = "deleteChatMessages" /\ IsDef(last'.before)) =>
       LET chatId == last'.call.chatId
           posts == LinkedPosts(TableOf(Global, chatId), Range(last'.call.ids))
       IN /\ DOMAIN byTabId' = DOMAIN byTabId
          /\ \A tabId \in DOMAIN byTabId :
               LET current == selectCurrentMessageList(Global, tabId)
                   after == selectCurrentMessageList(GlobalNext, tabId)
               IN IF /\ IsDef(current)
                     /\ Get(current).chatId = chatId
                     /\ Get(current).type = "thread"
                     /\ Get(current).threadId \in posts
                  THEN after = Some(DefaultList(chatId))
                  ELSE after = current]_vars

\* the post 1 was deleted while one tab showed its thread and the other its
\* pinned list
C9_Witness ==
  /\ last.call.op = "deleteChatMessages"
  /\ IsDef(last.before)
  /\ LinkedPosts(Get(last.before), Range(last.call.ids)) = {1}
  /\ DOMAIN byTabId = TabIds
  /\ byTabId[1].messageLists =
       <<[chatId |-> "c1", threadId |-> 1, type |-> "thread"], DefaultList("c1")>>
  /\ byTabId[2].messageLists = <<[chatId |-> "c1", threadId |-> 1, type |-> "pinned"]>>

\* C10: after deleteChatMessages deletes a linked channel post with origin
\* (fromChatId, fromMessageId), the thread index has no entry under
\* (fromChatId, fromMessageId).
C10_OrphanedThreadDropped ==
  (last.call.op = "deleteChatMessages" /\ IsDef(last.before)) =>
    \A id \in LinkedPosts(Get(last.before), Range(last.call.ids)) :
      LET forwardInfo == Get(Get(last.before)[id].forwardInfo)
      IN <<forwardInfo.fromChatId, forwardInfo.fromMessageId>> \notin ThreadsOf(Global)


-----------------------------------------------------------------------------
(* The scheduled messages of c1 *)

selectChatScheduledMessages(global, chatId) ==
  IF chatId \in DOMAIN global.scheduledByChatId
  THEN Some(global.scheduledByChatId[chatId].byId) ELSE Undefined

selectScheduledIds(global, chatId, threadId) ==
  selectThread(global, chatId, threadId).scheduledIds

updateScheduledMessages(global, chatId, newById) ==
  LET current == IF chatId \in DOMAIN global.scheduledByChatId
                 THEN global.scheduledByChatId[chatId] ELSE [byId |-> <<>>]
  IN [global EXCEPT !.scheduledByChatId =
        Put(@, chatId, [current EXCEPT !.byId = Merge(@, newById)])]

\* deleteChatScheduledMessages, lines 414-419: the threads of the chat that
\* hold a scheduledIds list, each filtered
deleteFromScheduledIds(global, chatId, messageIds) ==
  LET threadsById == global.byChatId[chatId].threadsById
      threads == SortedSeqOf(DOMAIN threadsById)
      step[i \in 0..Len(threads)] ==
        IF i = 0 THEN global
        ELSE LET thread == threadsById[threads[i]]
             IN IF IsDef(thread.scheduledIds)
                THEN replaceThreadParam(step[i - 1], chatId, threads[i], "scheduledIds",
                       Some(FilterSeq(Get(thread.scheduledIds),
                                      Range(Get(thread.scheduledIds)) \ Range(messageIds))))
                ELSE step[i - 1]
  IN step[Len(threads)]

deleteChatScheduledMessages(global, chatId, messageIds) ==
  LET byId == selectChatScheduledMessages(global, chatId)
      scheduledIds == selectScheduledIds(global, chatId, MAIN_THREAD_ID)
      g1 == IF IsDef(scheduledIds)
            THEN deleteFromScheduledIds(
                   replaceThreadParam(global, chatId, MAIN_THREAD_ID, "scheduledIds",
                     Some(FilterSeq(Get(scheduledIds),
                                    Range(Get(scheduledIds)) \ Range(messageIds)))),
                   chatId, messageIds)
            ELSE global
  IN IF ~IsDef(byId) THEN global
     ELSE [g1 EXCEPT !.scheduledByChatId =
             Put(@, chatId, [byId |-> omit(Get(byId), Range(messageIds))])]

ScheduledThreads == {MAIN_THREAD_ID, 1}

ScheduledIds == {1, 2, 3}

\* the scheduledIds lists the fetch of the scheduled history stores
ScheduledArrays == {<<>>, <<1>>, <<1, 2>>, <<2, 3>>, <<1, 2, 3>>}

ScheduledDeletes == {<<1>>, <<2>>, <<3, 1>>, <<2, 2>>}

\* c1 with listed and pinned ids, a viewport and a thread info, and no
\* scheduled message yet
ScheduledStart ==
  LET g1 == addChatMessagesById(EmptyGlobal({1}), "c1", Messages("c1", {1, 2}))
      g2 == updateListedIds(g1, "c1", MAIN_THREAD_ID, <<1, 2>>)
      g3 == safeReplacePinnedIds(g2, "c1", 1, <<2>>)
      g4 == addViewportId(g3, "c1", MAIN_THREAD_ID, 1, 1)
  IN updateThreadInfo(g4, "c1", MAIN_THREAD_ID,
                      Merge(PlainThreadInfo(<<"c1", MAIN_THREAD_ID>>),
                            [messagesCount |-> Some(2)]), FALSE)

InitScheduled == Starts(ScheduledStart)

UpdateScheduledMessages ==
  \E id \in ScheduledIds :
    Becomes(updateScheduledMessages(Global, "c1", Messages("c1", {id})),
            Call("updateScheduledMessages", "c1", 0, 0, <<id>>, <<>>, FALSE),
            Undefined)

ReplaceScheduledIds ==
  \E threadId \in ScheduledThreads, ids \in ScheduledArrays :
    Becomes(replaceThreadParam(Global, "c1", threadId, "scheduledIds", Some(ids)),
            Call("replaceThreadParam", "c1", threadId, 0, ids, <<>>, FALSE),
            Undefined)

DeleteChatScheduledMessages ==
  \E ids \in ScheduledDeletes :
    Becomes(deleteChatScheduledMessages(Global, "c1", ids),
            Call("deleteChatScheduledMessages", "c1", 0, 0, ids, <<>>, FALSE),
            selectChatScheduledMessages(Global, "c1"))

NextScheduled ==
  UpdateScheduledMessages \/ ReplaceScheduledIds \/ DeleteChatScheduledMessages

SpecScheduled == InitScheduled /\ [][NextScheduled]_vars

\* C11: after deleteChatScheduledMessages(chatId, ids) on a chat whose
\* scheduled table exists, the table holds none of the ids and no thread of
\* the chat holds one of them in its scheduledIds; no viewport, listedIds,
\* pinnedIds or threadInfo is changed.
C11_ScheduledDeletion ==
  [][(last'.call.op = "deleteChatScheduledMessages" /\ IsDef(last'.before)) =>
       LET chatId == last'.call.chatId
           D == Range(last'.call.ids)
           table == selectChatScheduledMessages(GlobalNext, chatId)
       IN /\ IsDef(table) /\ DOMAIN Get(table) \cap D = {}
          /\ \A t \in ThreadIds :
               LET ids == selectScheduledIds(GlobalNext, chatId, t)
               IN IsDef(ids) => Range(Get(ids)) \cap D = {}
          /\ byTabId' = byTabId
          /\ \A x \in Chats \X ThreadIds :
               LET old == selectThread(Global, x[1], x[2])
                   new == selectThread(GlobalNext, x[1], x[2])
               IN /\ new.listedIds = old.listedIds
                  /\ new.pinnedIds = old.pinnedIds
                  /\ new.threadInfo = old.threadInfo]_vars


-----------------------------------------------------------------------------
(* The message tables of c1 and c2 under batches of arriving messages *)

\* lines 169-176: the messages grouped by chat, a later message of the array
\* taking the place of an earlier one with the same chat and id
groupByChatId(messages) ==
  LET step[i \in 0..Len(messages)] ==
        IF i = 0 THEN <<>>
        ELSE LET message == messages[i]
                 m == step[i - 1]
                 ofChat == IF message.chatId \in DOMAIN m THEN m[message.chatId] ELSE <<>>
             IN Put(m, message.chatId, Put(ofChat, message.id, message))
  IN step[Len(messages)]

\* lines 178-180: Object.keys(addedByChatId) in insertion order
chatOrder(messages) ==
  LET step[i \in 0..Len(messages)] ==
        IF i = 0 THEN <<>>
        ELSE IF messages[i].chatId \in Range(step[i - 1]) THEN step[i - 1]
        ELSE Append(step[i - 1], messages[i].chatId)
  IN step[Len(messages)]

addMessages(global, messages) ==
  LET addedByChatId == groupByChatId(messages)
      chatIds == chatOrder(messages)
      step[i \in 0..Len(chatIds)] ==
        IF i = 0 THEN global
        ELSE addChatMessagesById(step[i - 1], chatIds[i], addedByChatId[chatIds[i]])
  IN step[Len(chatIds)]

UpsertIds == {1, 2}

\* a message as it arrives first, and as it arrives after an edit
EditedMessage(chatId, id) == Merge(Message(chatId, id), [isEdited |-> TRUE])

\* every batch over the ids, the empty one included, in every version
Batches(chatId) ==
  UNION {{[id \in S |-> IF edited[id] THEN EditedMessage(chatId, id)
                        ELSE Message(chatId, id)] : edited \in [S -> BOOLEAN]}
           : S \in SUBSET UpsertIds}

\* arrays of arriving messages: of one chat and of two, with an id twice
MessageArrays ==
  {<<>>,
   <<Message("c1", 1), Message("c2", 1)>>,
   <<Message("c1", 1), EditedMessage("c1", 1)>>,
   <<EditedMessage("c2", 2), Message("c1", 2), Message("c2", 1)>>}

InitUpsert == Starts(EmptyGlobal({1}))

UpsertChatMessagesById ==
  \E chatId \in Chats :
    \E newById \in Batches(chatId) :
      Becomes(addChatMessagesById(Global, chatId, newById),
              Call("addChatMessagesById", chatId, 0, 0, <<>>, newById, FALSE),
              selectChatMessages(Global, chatId))

AddMessages ==
  \E messages \in MessageArrays :
    Becomes(addMessages(Global, messages),
            Call("addMessages", "", 0, 0, <<>>, messages, FALSE),
            Undefined)

NextUpsert == UpsertChatMessagesById \/ AddMessages

SpecUpsert == InitUpsert /\ [][NextUpsert]_vars

\* C12: applying addChatMessagesById or addMessages with the same batch a
\* second time returns the state the first application produced.
C12_UpsertIdempotence ==
  [][/\ last'.call.op = "addChatMessagesById" =>
          addChatMessagesById(GlobalNext, last'.call.chatId, last'.call.update)
            = GlobalNext
     /\ last'.call.op = "addMessages" =>
          addMessages(GlobalNext, last'.call.update) = GlobalNext]_vars

\* a batch with an edited version of a stored message and with a new message
\* was applied to a table
C12_Witness ==
  /\ last.call.op = "addChatMessagesById"
  /\ IsDef(last.before)
  /\ \E id \in DOMAIN last.call.update :
       id \in DOMAIN Get(last.before) /\ Get(last.before)[id] # last.call.update[id]
  /\ \E id \in DOMAIN last.call.update : id \notin DOMAIN Get(last.before)

\* C13: after addChatMessagesById the stored entry of every id of the batch
\* carries the field values given in the batch, the fields the batch does not
\* give kept from the entry stored before; the call leaves the state as it
\* was only when every id of the batch was stored with an identical entry.
C13_UpsertMerge ==
  [][last'.call.op = "addChatMessagesById" =>
       LET chatId == last'.call.chatId
           newById == last'.call.update
           old == TableOf(Global, chatId)
           new == TableOf(GlobalNext, chatId)
       IN /\ \A id \in DOMAIN newById :
               /\ id \in DOMAIN new
               /\ new[id] = IF id \in DOMAIN old THEN Merge(old[id], newById[id])
                            ELSE newById[id]
          /\ GlobalNext = Global =>
               \A id \in DOMAIN newById : id \in DOMAIN old /\ old[id] = newById[id]]_vars


-----------------------------------------------------------------------------
(* The outlying ranges of the main thread of c1 under arriving batches *)

\* the batches that arrive: the ranges of the spec's scenario, batches that
\* abut, bridge two ranges or span them with a gap, a batch out of order, one
\* with an id twice, the empty one
RangeBatches ==
  {<<>>, <<5, 6, 7>>, <<7, 8, 9>>, <<20, 21>>, <<5, 6>>, <<9, 8>>, <<7, 7>>,
   <<6, 20>>}

InitRanges == Starts(addChatMessagesById(EmptyGlobal({1}), "c1", <<>>))

\* the sets of ids of the non-empty batches given so far: those given before
\* the last call, which `last.before` holds, and the last call's
Given ==
  (IF IsDef(last.before) THEN Get(last.before) ELSE {})
    \cup ({Range(last.call.ids)} \ {{}})

UpdateOutlyingRanges ==
  \E ids \in RangeBatches :
    Becomes(updateOutlyingLists(Global, "c1", MAIN_THREAD_ID, ids),
            Call("updateOutlyingLists", "c1", MAIN_THREAD_ID, 0, ids, <<>>, FALSE),
            Some(Given))

NextRanges == UpdateOutlyingRanges

SpecRanges == InitRanges /\ [][NextRanges]_vars

Min(S) == CHOOSE x \in S : \A y \in S : x <= y
Max(S) == CHOOSE x \in S : \A y \in S : x >= y

\* two non-empty sets of ids overlap or abut
Touching(A, B) == Min(A) <= Max(B) + 1 /\ Max(A) + 1 >= Min(B)

RangesOf(global, chatId, threadId) ==
  LET lists == selectOutlyingLists(global, chatId, threadId)
  IN IF IsDef(lists) THEN Get(lists) ELSE <<>>

\* C14: updateOutlyingLists with non-empty newIds joins newIds with the ranges
\* it overlaps or abuts into one ascending range without duplicates, and
\* appends newIds as a separate range when there is none; with empty newIds
\* the state is unchanged.
C14_RangeMerge ==
  [][last'.call.op = "updateOutlyingLists" =>
       LET c == last'.call
           old == RangesOf(Global, c.chatId, c.threadId)
           new == RangesOf(GlobalNext, c.chatId, c.threadId)
           newIds == Range(c.ids)
           touched == {i \in 1..Len(old) : Touching(newIds, Range(old[i]))}
           kept == FilterSeq(old, {old[i] : i \in (1..Len(old)) \ touched})
           merged == SortedSeqOf(newIds \cup UNION {Range(old[i]) : i \in touched})
       IN IF newIds = {} THEN GlobalNext = Global
          ELSE /\ new = Append(kept, merged)
               /\ touched = {} => new = Append(old, SortedSeqOf(newIds))]_vars

\* [7, 8, 9] arrived at [[5, 6, 7]], and then [20, 21]
C14_Witness ==
  /\ last.call.op = "updateOutlyingLists"
  /\ last.call.ids = <<20, 21>>
  /\ Given = {{5, 6, 7}, {7, 8, 9}, {20, 21}}
  /\ RangesOf(Global, "c1", MAIN_THREAD_ID) = <<<<5, 6, 7, 8, 9>>, <<20, 21>>>>

\* C15: in every state reached by updateOutlyingLists calls the ranges of
\* outlyingLists are pairwise disjoint: no two of them overlap or abut.
C15_RangesDisjoint ==
  LET ranges == RangesOf(Global, "c1", MAIN_THREAD_ID)
  IN \A i, j \in 1..Len(ranges) :
       i # j => ~Touching(Range(ranges[i]), Range(ranges[j]))

\* a batch bridged two ranges that were separate
C15_Witness ==
  /\ last.call.op = "updateOutlyingLists"
  /\ last.call.ids = <<7, 7>>
  /\ Given = {{5, 6}, {8, 9}, {7}}
  /\ RangesOf(Global, "c1", MAIN_THREAD_ID) = <<<<5, 6, 7, 8, 9>>>>

\* the ranges a set of batches comes to, whatever their order: batches that
\* overlap or abut, directly or through others, are one range
RECURSIVE Coalesced(_)
Coalesced(batches) ==
  IF \E A, B \in batches : A # B /\ Touching(A, B)
  THEN LET pair == CHOOSE x \in batches \X batches : x[1] # x[2] /\ Touching(x[1], x[2])
       IN Coalesced((batches \ {pair[1], pair[2]}) \cup {pair[1] \cup pair[2]})
  ELSE batches

\* C16: the ranges of outlyingLists, as a set, depend only on the set of
\* batches given to updateOutlyingLists, not on their order, and a batch given
\* again changes nothing.
C16_ArrivalOrder ==
  last.call.op = "updateOutlyingLists" =>
    LET ranges == RangesOf(Global, "c1", MAIN_THREAD_ID)
    IN /\ {Range(ranges[i]) : i \in 1..Len(ranges)} = Coalesced(Given)
       /\ Len(ranges) = Cardinality(Coalesced(Given))

\* a batch was given again after other batches had arrived in between
C16_Witness ==
  /\ last.call.op = "updateOutlyingLists"
  /\ Range(last.call.ids) = {8, 9}
  /\ IsDef(last.before)
  /\ {8, 9} \in Get(last.before)
  /\ Cardinality(Given) >= 4
  /\ Len(RangesOf(Global, "c1", MAIN_THREAD_ID)) = 2


-----------------------------------------------------------------------------
(* C17: updateListedIds *)

\* C17: after updateListedIds the thread's listedIds is the ascending sequence,
\* without duplicates, of the ids of the previous listedIds and of idsUpdate;
\* when a list exists and holds every id of idsUpdate, the state is unchanged.
C17_ListedMerge ==
  [][last'.call.op = "updateListedIds" =>
       LET c == last'.call
           old == selectListedIds(Global, c.chatId, c.threadId)
           new == selectListedIds(GlobalNext, c.chatId, c.threadId)
           oldIds == IF IsDef(old) THEN Range(Get(old)) ELSE {}
       IN /\ new = Some(SortedSeqOf(oldIds \cup Range(c.ids)))
          /\ (IsDef(old) /\ Range(c.ids) \subseteq oldIds) => GlobalNext = Global]_vars

\* ids out of order, one of them twice and one of them listed already, were
\* merged into a list
C17_Witness ==
  /\ last.call.op = "updateListedIds"
  /\ last.call.ids = <<2, 2, 1>>
  /\ last.before = Some(<<1, 3>>)
  /\ selectListedIds(Global, "c1", last.call.threadId) = Some(<<1, 2, 3>>)


-----------------------------------------------------------------------------
(* C18: deleteChatMessages applied again *)

\* C18: deleteChatMessages(chatId, ids) applied to the state its first
\* application produced leaves every thread's listedIds, outlyingLists and
\* pinnedIds, every tab's viewportIds and the message table as they were
\* (and with them the other fields of the threads and of the tabs, the
\* threadInfo excepted).
C18_ReRemoval ==
  last.call.op = "deleteChatMessages" =>
    LET again == deleteChatMessages(Global, last.call.chatId, last.call.ids)
    IN /\ again.byTabId = byTabId
       /\ \A chatId \in Chats :
            /\ selectChatMessages(again, chatId) = selectChatMessages(Global, chatId)
            /\ \A t \in ThreadIds :
                 ListsOf(selectThread(again, chatId, t))
                   = ListsOf(selectThread(Global, chatId, t))

\* messages of the table were deleted from the lists and the viewports of two
\* threads, and ids are left behind them
C18_Witness ==
  /\ last.call.op = "deleteChatMessages"
  /\ last.call.ids = <<2, 1>>
  /\ IsDef(last.before)
  /\ {1, 2} \subseteq DOMAIN Get(last.before)
  /\ selectListedIds(Global, "c1", MAIN_THREAD_ID) = Some(<<3>>)
  /\ selectListedIds(Global, "c1", 1) = Some(<<>>)
  /\ selectOutlyingLists(Global, "c1", MAIN_THREAD_ID) = Some(<<<<3>>>>)
  /\ ~IsDef(selectViewportIds(Global, "c1", MAIN_THREAD_ID, 1))


-----------------------------------------------------------------------------
(* C19, C20: the window after a deletion and after a replacement *)

\* the threads deleteChatMessages visits: the main thread, and the thread of
\* every deleted message that the table holds
VisitedThreads(global, chatId, D) ==
  {MAIN_THREAD_ID} \cup
  UNION {selectThreadIdFromMessage(global, TableOf(global, chatId)[id]) :
           id \in D \cap DOMAIN TableOf(global, chatId)}

\* C19: when deleteChatMessages removes every id of a tab's viewport for a
\* thread, the tab has no viewportIds for the thread afterwards; when ids
\* remain, the viewport holds the remaining ids in their order; a tab without
\* a viewport for the thread is left without one.
C19_EmptyWindowAbsent ==
  [][(last'.call.op = "deleteChatMessages"
        /\ IsDef(selectChatMessages(Global, last'.call.chatId))) =>
       LET chatId == last'.call.chatId
           D == Range(last'.call.ids)
       IN \A t \in VisitedThreads(Global, chatId, D), tabId \in DOMAIN byTabId :
            LET old == selectViewportIds(Global, chatId, t, tabId)
                new == selectViewportIds(GlobalNext, chatId, t, tabId)
            IN /\ new # Some(<<>>)
               /\ ~IsDef(old) => ~IsDef(new)
               /\ (IsDef(old) /\ ~IsDef(new)) => Range(Get(old)) \subseteq D
               /\ IsDef(new) =>
                    /\ IsDef(old)
                    /\ Range(Get(old)) \ D \subseteq Range(Get(new))
                    /\ Get(new) = FilterSeq(Get(old), Range(Get(new)))
               /\ t = MAIN_THREAD_ID =>
                    new = IF ~IsDef(old) \/ Range(Get(old)) \subseteq D
                          THEN Undefined
                          ELSE Some(FilterSeq(Get(old), Range(Get(old)) \ D))]_vars

\* the call removed every id of one tab's window and some of the other's
C19_Witness ==
  /\ last.call.op = "deleteChatMessages"
  /\ IsDef(last.before)
  /\ Get(last.before)[1] = Some(<<1, 3>>)
  /\ Get(last.before)[2] = Some(<<1, 2, 3>>)
  /\ ~IsDef(selectViewportIds(Global, "c1", MAIN_THREAD_ID, 1))
  /\ selectViewportIds(Global, "c1", MAIN_THREAD_ID, 2) = Some(<<2>>)


\* C20: after safeReplaceViewportIds the tab's viewportIds is the ascending,
\* duplicate-free sequence of the elements of newViewportIds, whatever the
\* order and the duplicates of the input; when that sequence is element-wise
\* identical to the current viewport, the tab's viewportIds is unchanged.
C20_WindowReplacement ==
  [][last'.call.op = "safeReplaceViewportIds" =>
       LET chatId == last'.call.chatId
           threadId == last'.call.threadId
           tabId == last'.call.tabId
           old == selectViewportIds(Global, chatId, threadId, tabId)
           new == selectViewportIds(GlobalNext, chatId, threadId, tabId)
           ordered == SortedSeqOf(Range(last'.call.ids))
       IN /\ new = Some(ordered)
          /\ StrictlyAscending(Get(new))
          /\ (IsDef(old) /\ areSortedArraysEqual(Get(old), ordered)) => new = old]_vars

\* an input out of order was given to a window that held its ordered elements
C20_Witness ==
  /\ last.call.op = "safeReplaceViewportIds"
  /\ last.call.ids = <<2, 1>>
  /\ last.before = Some(TRUE)
  /\ selectViewportIds(Global, "c1", MAIN_THREAD_ID, last.call.tabId) = Some(<<1, 2>>)


-----------------------------------------------------------------------------
(* C21: the windows of two tabs on two threads of c1 *)

TabThreadIds == {MAIN_THREAD_ID, 1}

TabViewportIds == {1, 2}

TabViewportArrays == {<<>>, <<2, 1>>}

\* the store every tab starts from
TabsStart == addChatMessagesById(EmptyGlobal(TabIds), "c1", <<>>)

\* last.before holds, for every tab, the store that the calls of that tab
\* alone have built from the start
Alone(tabId) == Get(last.before)[tabId]

InitTabs ==
  /\ byChatId = TabsStart.byChatId
  /\ byTabId = TabsStart.byTabId
  /\ scheduledByChatId = TabsStart.scheduledByChatId
  /\ last = [call |-> NoCall, before |-> Some([tabId \in TabIds |-> TabsStart])]

TabAddViewportId ==
  \E newId \in TabViewportIds, threadId \in TabThreadIds, tabId \in TabIds :
    Becomes(addViewportId(Global, "c1", threadId, newId, tabId),
            Call("addViewportId", "c1", threadId, tabId, <<newId>>, <<>>, FALSE),
            Some([Get(last.before) EXCEPT
                    ![tabId] = addViewportId(@, "c1", threadId, newId, tabId)]))

TabSafeReplaceViewportIds ==
  \E ids \in TabViewportArrays, threadId \in TabThreadIds, tabId \in TabIds :
    Becomes(safeReplaceViewportIds(Global, "c1", threadId, ids, tabId),
            Call("safeReplaceViewportIds", "c1", threadId, tabId, ids, <<>>, FALSE),
            Some([Get(last.before) EXCEPT
                    ![tabId] = safeReplaceViewportIds(@, "c1", threadId, ids, tabId)]))

NextTabs == TabAddViewportId \/ TabSafeReplaceViewportIds

SpecTabs == InitTabs /\ [][NextTabs]_vars

\* C21: addViewportId or safeReplaceViewportIds applied to a tab for a thread
\* leaves the viewportIds of every other tab for that thread, and of the same
\* tab for every other thread, unchanged; after any interleaving of the calls
\* of two tabs every tab has the viewportIds that its own calls alone give it.
C21_TabsIndependent ==
  [][/\ \A tabId \in TabIds, threadId \in TabThreadIds :
          (tabId # last'.call.tabId \/ threadId # last'.call.threadId) =>
            selectViewportIds(GlobalNext, "c1", threadId, tabId)
              = selectViewportIds(Global, "c1", threadId, tabId)
     /\ \A tabId \in TabIds, threadId \in TabThreadIds :
          selectViewportIds(GlobalNext, "c1", threadId, tabId)
            = selectViewportIds(Get(last'.before)[tabId], "c1", threadId, tabId)]_vars

\* tab 2 wrote the window of thread 1 while tab 1 holds windows on both
\* threads and tab 2 holds another window on the main thread
C21_Witness ==
  /\ last.call.op = "addViewportId"
  /\ last.call.tabId = 2
  /\ last.call.threadId = 1
  /\ selectViewportIds(Global, "c1", 1, 2) = Some(<<1>>)
  /\ selectViewportIds(Global, "c1", 1, 1) = Some(<<2>>)
  /\ selectViewportIds(Global, "c1", MAIN_THREAD_ID, 1) = Some(<<1, 2>>)
  /\ selectViewportIds(Global, "c1", MAIN_THREAD_ID, 2) = Some(<<>>)
  /\ selectViewportIds(Alone(1), "c1", 1, 2) = Undefined


-----------------------------------------------------------------------------
(* Selection of messages in a tab *)

\* selectors selectMessageIdsByGroupId: the ids of the chat's messages that
\* carry the group id, in the order of the table's keys
selectMessageIdsByGroupId(global, chatId, groupedId) ==
  LET byId == selectChatMessages(global, chatId)
  IN IF ~IsDef(byId) THEN Undefined
     ELSE Some(SortedSeqOf({id \in DOMAIN Get(byId) :
                              /\ "groupedId" \in DOMAIN Get(byId)[id]
                              /\ Get(byId)[id].groupedId = Some(groupedId)}))

\* selectors selectCurrentMessageIds: the ids the message list of the given
\* type shows
selectCurrentMessageIds(global, chatId, threadId, messageListType, tabId) ==
  IF messageListType = "thread" THEN selectViewportIds(global, chatId, threadId, tabId)
  ELSE IF messageListType = "pinned" THEN selectPinnedIds(global, chatId, threadId)
  ELSE selectThread(global, chatId, threadId).scheduledIds

\* messageId is absent, or the array Array.prototype.concat([], messageId)
\* makes of a number or of an array
enterMessageSelectMode(global, chatId, messageId, tabId) ==
  LET messageIds == IF IsDef(messageId) THEN Get(messageId) ELSE <<>>
  IN updateTabState(global,
       [selectedMessages |-> Some([chatId |-> chatId, messageIds |-> messageIds])],
       tabId)

exitMessageSelectMode(global, tabId) ==
  updateTabState(global, [selectedMessages |-> Undefined], tabId)

\* the range stops before its upper end
selectRangeOpenEnded(global, chatId, threadId, messageListType, messageId, messageIds, tabId) ==
  LET viewportIds == Get(selectCurrentMessageIds(global, chatId, threadId, messageListType, tabId))
      prevIndex == IndexOf(viewportIds, messageIds[Len(messageIds)])
      currentIndex == IndexOf(viewportIds, messageId)
      from == IF prevIndex < currentIndex THEN prevIndex ELSE currentIndex
      to == IF prevIndex > currentIndex THEN prevIndex ELSE currentIndex
      slice == Slice(viewportIds, from, to)
  IN unique(messageIds \o slice)

\* lines 727-735: the ids of the visible list from the last selected id to
\* the toggled one are added
selectRange(global, chatId, threadId, messageListType, messageId, messageIds, tabId) ==
  LET viewportIds == Get(selectCurrentMessageIds(global, chatId, threadId, messageListType, tabId))
      prevIndex == IndexOf(viewportIds, messageIds[Len(messageIds)])
      currentIndex == IndexOf(viewportIds, messageId)
      from == IF prevIndex < currentIndex THEN prevIndex ELSE currentIndex
      to == IF prevIndex > currentIndex THEN prevIndex ELSE currentIndex
      slice == Slice(viewportIds, from, to + 1)
  IN unique(messageIds \o slice)

\* lines 712-727: the call takes the withShift branch, which reads the
\* visible list
readsViewport(global, chatId, messageId, groupedId, childMessageIds, withShift, tabId) ==
  LET oldSelectedMessages == selectTabState(global, tabId).selectedMessages
      children == IF IsDef(groupedId)
                  THEN selectMessageIdsByGroupId(global, chatId, Get(groupedId))
                  ELSE childMessageIds
      selectedMessageIds == IF IsDef(children) THEN Get(children) ELSE <<messageId>>
  IN /\ IsDef(oldSelectedMessages)
     /\ withShift
     /\ Len(Get(oldSelectedMessages).messageIds) > 0
     /\ Range(selectedMessageIds) \ Range(Get(oldSelectedMessages).messageIds) # {}

\* the emptied selection is stored
toggleMessageSelectionKeepingEmpty(global, chatId, threadId, messageListType, messageId, groupedId, childMessageIds, withShift, tabId) ==
  LET oldSelectedMessages == selectTabState(global, tabId).selectedMessages
      children == IF IsDef(groupedId)
                  THEN selectMessageIdsByGroupId(global, chatId, Get(groupedId))
                  ELSE childMessageIds
      selectedMessageIds == IF IsDef(children) THEN Get(children) ELSE <<messageId>>
  IN IF ~IsDef(oldSelectedMessages)
     THEN enterMessageSelectMode(global, chatId, Some(selectedMessageIds), tabId)
     ELSE LET messageIds == Get(oldSelectedMessages).messageIds
              newSelectedMessageIds ==
                FilterSeq(selectedMessageIds, Range(selectedMessageIds) \ Range(messageIds))
              newMessageIds ==
                IF newSelectedMessageIds = <<>>
                THEN FilterSeq(messageIds, Range(messageIds) \ Range(selectedMessageIds))
                ELSE IF withShift /\ Len(messageIds) > 0
                THEN selectRange(global, chatId, threadId, messageListType, messageId, messageIds, tabId)
                ELSE messageIds \o newSelectedMessageIds
          IN updateTabState(global,
                    [selectedMessages |->
                       Some([Get(oldSelectedMessages) EXCEPT !.messageIds = newMessageIds])],
                    tabId)


toggleMessageSelection(global, chatId, threadId, messageListType, messageId, groupedId, childMessageIds, withShift, tabId) ==
  LET oldSelectedMessages == selectTabState(global, tabId).selectedMessages
      children == IF IsDef(groupedId)
                  THEN selectMessageIdsByGroupId(global, chatId, Get(groupedId))
                  ELSE childMessageIds
      selectedMessageIds == IF IsDef(children) THEN Get(children) ELSE <<messageId>>
  IN IF ~IsDef(oldSelectedMessages)
     THEN enterMessageSelectMode(global, chatId, Some(selectedMessageIds), tabId)
     ELSE LET messageIds == Get(oldSelectedMessages).messageIds
              newSelectedMessageIds ==
                FilterSeq(selectedMessageIds, Range(selectedMessageIds) \ Range(messageIds))
              newMessageIds ==
                IF newSelectedMessageIds = <<>>
                THEN FilterSeq(messageIds, Range(messageIds) \ Range(selectedMessageIds))
                ELSE IF withShift /\ Len(messageIds) > 0
                THEN selectRange(global, chatId, threadId, messageListType, messageId, messageIds, tabId)
                ELSE messageIds \o newSelectedMessageIds
          IN IF newMessageIds = <<>>
             THEN exitMessageSelectMode(global, tabId)
             ELSE updateTabState(global,
                    [selectedMessages |->
                       Some([Get(oldSelectedMessages) EXCEPT !.messageIds = newMessageIds])],
                    tabId)


-----------------------------------------------------------------------------
(* The selection of tab 1 in the main thread of c1 *)

SelectionIds == 10..14

\* the ids of the messages of one album
AlbumIds == {10, 11}

AlbumMessage(chatId, id) ==
  Merge(Message(chatId, id),
        [groupedId |-> IF id \in AlbumIds THEN Some("album") ELSE Undefined])

\* the windows the tab shows
SelectionViewports == {<<10, 11, 12, 13, 14>>, <<12, 13, 14>>, <<11, 13>>, <<>>}

SelectionStart ==
  addChatMessagesById(EmptyGlobal(TabIds), "c1",
                      [id \in SelectionIds |-> AlbumMessage("c1", id)])

InitSelection == Starts(SelectionStart)

\* the selection of tab 1: absent, or the array of the selected ids
SelectionOf(global) == selectTabState(global, 1).selectedMessages

\* the UI passes the group id of the message it toggles.  A call that
\* reads the visible list when the tab shows none throws a TypeError at
\* viewportIds.indexOf (line 730) and returns no state
ToggleMessageSelection ==
  \E messageId \in SelectionIds, withShift \in BOOLEAN :
    LET groupedId == Get(selectChatMessage(Global, "c1", messageId)).groupedId
    IN /\ readsViewport(Global, "c1", messageId, groupedId, Undefined, withShift, 1)
            => IsDef(selectCurrentMessageIds(Global, "c1", MAIN_THREAD_ID, "thread", 1))
       /\ Becomes(toggleMessageSelection(Global, "c1", MAIN_THREAD_ID, "thread", messageId,
                                      groupedId, Undefined, withShift, 1),
               Call("toggleMessageSelection", "c1", MAIN_THREAD_ID, 1, <<messageId>>,
                    groupedId, withShift),
               SelectionOf(Global))

ExitMessageSelectMode ==
  Becomes(exitMessageSelectMode(Global, 1),
          Call("exitMessageSelectMode", "", 0, 1, <<>>, <<>>, FALSE),
          SelectionOf(Global))

ShowViewport ==
  \E ids \in SelectionViewports :
    Becomes(safeReplaceViewportIds(Global, "c1", MAIN_THREAD_ID, ids, 1),
            Call("safeReplaceViewportIds", "c1", MAIN_THREAD_ID, 1, ids, <<>>, FALSE),
            SelectionOf(Global))

NextSelection == ToggleMessageSelection \/ ExitMessageSelectMode \/ ShowViewport

SpecSelection == InitSelection /\ [][NextSelection]_vars

\* the ids selected in tab 1; none when there is no selection
SelectedIn(global) ==
  IF IsDef(SelectionOf(global)) THEN Get(SelectionOf(global)).messageIds ELSE <<>>

NoRepeat(s) == \A i, j \in 1..Len(s) : s[i] = s[j] => i = j

\* the window of tab 1 on the main thread of c1; empty when there is none
WindowOf(global) ==
  IF IsDef(selectViewportIds(global, "c1", MAIN_THREAD_ID, 1))
  THEN Get(selectViewportIds(global, "c1", MAIN_THREAD_ID, 1)) ELSE <<>>

\* the toggle that `last` is going to record: an id that was not selected
TogglesNew ==
  /\ last'.call.op = "toggleMessageSelection"
  /\ last'.call.ids[1] \notin Range(SelectedIn(Global))

\* C22: a toggle with the range modifier on an id not yet selected, with a
\* non-empty prior selection, gives the prior selection plus every id of the
\* visible viewport between the position of the last selected id and the
\* position of the toggled id, both ends included, in either direction, with
\* no id twice.
C22_RangeSelection ==
  [][(/\ TogglesNew
      /\ last'.call.flag
      /\ SelectedIn(Global) # <<>>
      /\ last'.call.ids[1] \in Range(WindowOf(Global))
      /\ SelectedIn(Global)[Len(SelectedIn(Global))] \in Range(WindowOf(Global))) =>
       LET prior == SelectedIn(Global)
           window == WindowOf(Global)
           p == IndexOf(window, prior[Len(prior)]) + 1
           c == IndexOf(window, last'.call.ids[1]) + 1
           between == {window[i] : i \in (IF p < c THEN p..c ELSE c..p)}
       IN /\ Range(SelectedIn(GlobalNext)) = Range(prior) \cup between
          /\ NoRepeat(SelectedIn(GlobalNext))]_vars

\* window [10..14], selection {12}: toggling 14 with the modifier gave
\* {12, 13, 14}
C22_Witness ==
  /\ last.call.op = "toggleMessageSelection"
  /\ last.call.flag
  /\ last.call.ids = <<14>>
  /\ IsDef(last.before)
  /\ Get(last.before).messageIds = <<12>>
  /\ WindowOf(Global) = <<10, 11, 12, 13, 14>>
  /\ SelectedIn(Global) = <<12, 13, 14>>


-----------------------------------------------------------------------------
(* Entering selection mode *)

\* the messageId given to enterMessageSelectMode: none, an empty list, one
\* id, the ids of the album
EnteredIds == {Undefined, Some(<<>>), Some(<<12>>), Some(<<10, 11>>)}

EnterMessageSelectMode ==
  \E messageId \in EnteredIds :
    Becomes(enterMessageSelectMode(Global, "c1", messageId, 1),
            Call("enterMessageSelectMode", "c1", 0, 1,
                 IF IsDef(messageId) THEN Get(messageId) ELSE <<>>, messageId, FALSE),
            SelectionOf(Global))

NextSelectMode ==
  EnterMessageSelectMode \/ ToggleMessageSelection \/ ExitMessageSelectMode \/ ShowViewport

SpecSelectMode == InitSelection /\ [][NextSelectMode]_vars

\* C23: after enterMessageSelectMode with no message id, or with an empty
\* list of ids, on a tab with no selection, the tab's selectedMessages is
\* still absent.
C23_EnterWithNothing ==
  [][(/\ last'.call.op = "enterMessageSelectMode"
      /\ last'.call.ids = <<>>
      /\ ~IsDef(SelectionOf(Global))) =>
       ~IsDef(SelectionOf(GlobalNext))]_vars


\* the ids a toggle call is about: the ids of the group when the call names
\* one, else the toggled id
Toggled(call) ==
  IF IsDef(call.update)
  THEN Range(Get(selectMessageIdsByGroupId(Global, call.chatId, Get(call.update))))
  ELSE {call.ids[1]}

C25_GroupAtomic ==
  (last.call.op = "toggleMessageSelection" /\ IsDef(last.call.update)) =>
    \/ Toggled(last.call) \subseteq Range(SelectedIn(Global))
    \/ Toggled(last.call) \cap Range(SelectedIn(Global)) = {}

\* C27: after toggleMessageSelection on an id that was not selected before
\* the call, the id is in the tab's selection, for every combination of
\* flags, also with the range modifier when the last selected id or the
\* toggled id is not in the visible viewport.
C27_ToggledIsSelected ==
  [][TogglesNew => last'.call.ids[1] \in Range(SelectedIn(GlobalNext))]_vars


-----------------------------------------------------------------------------
(* Patching one message: updateChatMessage *)

\* an optional field of an object holds a value: the key is there and its
\* value is not undefined
Holds(object, key) == key \in DOMAIN object /\ IsDef(object[key])

\* message.id is truthy: there is an id and it is not 0
HasId(message) == "id" \in DOMAIN message /\ message.id # 0

\* helpers hasMessageTtl: the message's content carries a time to live
hasMessageTtl(message) ==
  "content" \in DOMAIN message /\ Holds(message.content, "ttlSeconds")

\* lines 205-219: the content the update is given when it clears the unread
\* flag of a message with a time to live; the update as it is otherwise
expireMedia(message, messageUpdate) ==
  LET content == IF "content" \in DOMAIN messageUpdate THEN messageUpdate.content ELSE <<>>
  IN IF /\ IsDef(message)
        /\ "isMediaUnread" \in DOMAIN messageUpdate
        /\ messageUpdate.isMediaUnread = FALSE
        /\ hasMessageTtl(Get(message))
     THEN IF Holds(Get(message).content, "voice")
          THEN Merge(messageUpdate,
                     [content |-> Merge(content, [voice |-> Undefined, isExpiredVoice |-> TRUE])])
          ELSE IF Holds(Get(message).content, "video") /\ Get(Get(message).content.video).isRound
          THEN Merge(messageUpdate,
                     [content |-> Merge(content, [video |-> Undefined, isExpiredRoundVideo |-> TRUE])])
          ELSE messageUpdate
     ELSE messageUpdate

\* the result is stored whether it has an id or not
updateChatMessageUnguarded(global, chatId, messageId, messageUpdate) ==
  LET byId == TableOf(global, chatId)
      message == IF messageId \in DOMAIN byId THEN Some(byId[messageId]) ELSE Undefined
      updatedMessage == Merge(IF IsDef(message) THEN Get(message) ELSE <<>>,
                              expireMedia(message, messageUpdate))
  IN replaceChatMessages(global, chatId, Put(byId, messageId, updatedMessage))

updateChatMessage(global, chatId, messageId, messageUpdate) ==
  LET byId == TableOf(global, chatId)
      message == IF messageId \in DOMAIN byId THEN Some(byId[messageId]) ELSE Undefined
      updatedMessage == Merge(IF IsDef(message) THEN Get(message) ELSE <<>>,
                              expireMedia(message, messageUpdate))
  IN IF ~HasId(updatedMessage)
     THEN global
     ELSE replaceChatMessages(global, chatId, Put(byId, messageId, updatedMessage))


-----------------------------------------------------------------------------
(* The message table of c1 under upserts, patches and deletions *)

PatchIds == {1, 2}

\* message 1 is a voice message and message 2 a round video, both with a
\* time to live
ContentOf(id) ==
  IF id = 1 THEN [voice |-> Some("voice"), ttlSeconds |-> Some(1)]
  ELSE [video |-> Some([isRound |-> TRUE]), ttlSeconds |-> Some(1)]

MediaMessage(chatId, id) ==
  Merge(Message(chatId, id), [content |-> ContentOf(id), isMediaUnread |-> TRUE])

\* the patches given to updateChatMessage for the message messageId: empty,
\* one field, the unread flag cleared, the unread flag cleared along with new
\* content, the whole message, and a message with another id
Patches(messageId) ==
  {<<>>,
   [isEdited |-> TRUE],
   [isMediaUnread |-> FALSE],
   [isMediaUnread |-> FALSE, content |-> [text |-> Some("seen")]],
   MediaMessage("c1", messageId),
   [id |-> (messageId % 2) + 1]}

InitPatch == Starts(addChatMessagesById(EmptyGlobal(TabIds), "c1", <<>>))

PatchAddChatMessagesById ==
  \E ids \in SUBSET PatchIds :
    Becomes(addChatMessagesById(Global, "c1", [id \in ids |-> MediaMessage("c1", id)]),
            Call("addChatMessagesById", "c1", 0, 0, SortedSeqOf(ids), <<>>, FALSE),
            Undefined)

PatchAddMessages ==
  \E id \in PatchIds :
    Becomes(addMessages(Global, <<MediaMessage("c1", id)>>),
            Call("addMessages", "c1", 0, 0, <<id>>, <<>>, FALSE),
            Undefined)

UpdateChatMessage ==
  \E messageId \in PatchIds :
    \E messageUpdate \in Patches(messageId) :
      Becomes(updateChatMessage(Global, "c1", messageId, messageUpdate),
              Call("updateChatMessage", "c1", 0, 0, <<messageId>>, messageUpdate, FALSE),
              Undefined)

PatchDeleteChatMessages ==
  \E id \in PatchIds :
    Becomes(deleteChatMessages(Global, "c1", <<id>>),
            Call("deleteChatMessages", "c1", 0, 0, <<id>>, <<>>, FALSE),
            Undefined)

NextPatch ==
  PatchAddChatMessagesById \/ PatchAddMessages \/ UpdateChatMessage \/ PatchDeleteChatMessages

SpecPatch == InitPatch /\ [][NextPatch]_vars


\* the patch call that `last` is going to record, and the entry it finds
PatchedId == last'.call.ids[1]
Found == IF PatchedId \in DOMAIN TableOf(Global, "c1")
         THEN TableOf(Global, "c1")[PatchedId] ELSE <<>>
Patched == Merge(Found, last'.call.update)

\* the patch clears the unread flag of a stored message with a time to live
\* whose content holds the given medium
Expires(medium) ==
  /\ PatchedId \in DOMAIN TableOf(Global, "c1")
  /\ "isMediaUnread" \in DOMAIN last'.call.update
  /\ last'.call.update.isMediaUnread = FALSE
  /\ "content" \in DOMAIN Found
  /\ Holds(Found.content, "ttlSeconds")
  /\ Holds(Found.content, medium)

\* C26: updateChatMessage whose merged result has no id returns the state
\* unchanged, so no entry without an id is stored; when the message exists,
\* the stored entry is the previous entry with the update's fields
\* overwritten and all other fields kept.
C26_PatchGuard ==
  [][last'.call.op = "updateChatMessage" =>
       /\ ~HasId(Patched) => GlobalNext = Global
       /\ \A id \in DOMAIN TableOf(GlobalNext, "c1") : HasId(TableOf(GlobalNext, "c1")[id])
       /\ (PatchedId \in DOMAIN TableOf(Global, "c1") /\ HasId(Patched)) =>
            TableOf(GlobalNext, "c1")[PatchedId] = Patched]_vars

\* C26, amended: as above, except that a patch with isMediaUnread false on a
\* message with a time to live whose content holds a voice (or else a round
\* video) also replaces the content: the stored content is the patch's
\* content with voice (video) undefined and isExpiredVoice
\* (isExpiredRoundVideo) true.
C26_PatchGuardExpiring ==
  [][last'.call.op = "updateChatMessage" =>
       LET given == IF "content" \in DOMAIN last'.call.update
                    THEN last'.call.update.content ELSE <<>>
           expected ==
             IF Expires("voice")
             THEN Merge(Patched, [content |->
                    Merge(given, [voice |-> Undefined, isExpiredVoice |-> TRUE])])
             ELSE IF Expires("video") /\ Get(Found.content.video).isRound
             THEN Merge(Patched, [content |->
                    Merge(given, [video |-> Undefined, isExpiredRoundVideo |-> TRUE])])
             ELSE Patched
       IN /\ ~HasId(Patched) => GlobalNext = Global
          /\ \A id \in DOMAIN TableOf(GlobalNext, "c1") : HasId(TableOf(GlobalNext, "c1")[id])
          /\ (PatchedId \in DOMAIN TableOf(Global, "c1") /\ HasId(Patched)) =>
               TableOf(GlobalNext, "c1")[PatchedId] = expected
          /\ \A id \in DOMAIN TableOf(Global, "c1") \ {PatchedId} :
               /\ id \in DOMAIN TableOf(GlobalNext, "c1")
               /\ TableOf(GlobalNext, "c1")[id] = TableOf(Global, "c1")[id]]_vars

\* an edited voice message with a time to live was patched with the unread
\* flag cleared: the edit is kept and the voice has expired
C26_Witness ==
  /\ last.call.op = "updateChatMessage"
  /\ last.call.ids = <<1>>
  /\ last.call.update = [isMediaUnread |-> FALSE]
  /\ 1 \in DOMAIN TableOf(Global, "c1")
  /\ "isEdited" \in DOMAIN TableOf(Global, "c1")[1]
  /\ TableOf(Global, "c1")[1].content = [voice |-> Undefined, isExpiredVoice |-> TRUE]


\* C30: in every state that addMessages, addChatMessagesById (with maps keyed
\* by message id), updateChatMessage and deleteChatMessages calls reach,
\* every entry stored under key k in a chat's message table is a message
\* whose id is k.
C30_KeyIsId ==
  \A chatId \in DOMAIN byChatId :
    \A k \in DOMAIN TableOf(Global, chatId) :
      /\ "id" \in DOMAIN TableOf(Global, chatId)[k]
      /\ TableOf(Global, chatId)[k].id = k


-----------------------------------------------------------------------------
(* C28, C29: what deletions leave in the lists and in the counts *)

\* C28: in every state that updateOutlyingLists, removeOutlyingList and
\* deleteChatMessages calls reach, every range stored in a thread's
\* outlyingLists is non-empty; a range whose ids are all deleted does not
\* remain in outlyingLists as an empty list.
C28_NoEmptyRange ==
  \A x \in ThreadsOf(Global) :
    IsDef(selectOutlyingLists(Global, x[1], x[2])) =>
      \A i \in 1..Len(Get(selectOutlyingLists(Global, x[1], x[2]))) :
        Get(selectOutlyingLists(Global, x[1], x[2]))[i] # <<>>


updateThreadUnreadFromForwardedMessage(global, originMessage, chatId, lastMessageId, isDeleting) ==
  LET forwardInfo == IF IsDef(Field(originMessage, "forwardInfo"))
                     THEN Get(originMessage.forwardInfo) ELSE <<>>
  IN IF Holds(forwardInfo, "channelPostId") /\ Holds(forwardInfo, "fromChatId")
     THEN LET channelPostId == Get(forwardInfo.channelPostId)
              threadInfoOld == selectThreadInfo(global, chatId, channelPostId)
          IN IF IsDef(threadInfoOld)
             THEN replaceThreadParam(global, chatId, channelPostId, "threadInfo",
                    Some(Merge(Get(threadInfoOld),
                      [lastMessageId |-> Some(lastMessageId),
                       messagesCount |->
                         Some((IF IsDef(Get(threadInfoOld).messagesCount)
                               THEN Get(Get(threadInfoOld).messagesCount) ELSE 0)
                              + (IF isDeleting THEN -1 ELSE 1))])))
             ELSE global
     ELSE global

\* the post 1, its comment 2 and the message 3 are in the table and listed in
\* the main thread, the comment is listed in the thread of the post; each
\* thread's count is the number of its listed ids that are not local
DeficitStart ==
  LET NonLocal(ids) == Cardinality({id \in Range(ids) : ~isLocalMessageId(id)})
      g1 == addChatMessagesById(EmptyGlobal({1}), "c1", Messages("c1", {1, 2, 3}))
      g2 == updateListedIds(g1, "c1", MAIN_THREAD_ID, <<1, 2, 3>>)
      g3 == updateListedIds(g2, "c1", 1, <<2>>)
      g4 == updateThreadInfo(g3, "c1", MAIN_THREAD_ID,
                             Merge(PlainThreadInfo(<<"c1", MAIN_THREAD_ID>>),
                                   [messagesCount |-> Some(NonLocal(<<1, 2, 3>>))]), FALSE)
  IN updateThreadInfo(g4, "c1", 1,
                      Merge(PlainThreadInfo(<<"c1", 1>>),
                            [messagesCount |-> Some(NonLocal(<<2>>))]), FALSE)

InitDeficit == Starts(DeficitStart)

\* the messages whose deletion is reported to the thread of a post: a
\* forward of the post 1, a forward of the post 2, which has no thread, and a
\* message that is no forward
OriginMessages ==
  {[id |-> 2, forwardInfo |-> Some([channelPostId |-> Some(1), fromChatId |-> Some("c2")])],
   [id |-> 3, forwardInfo |-> Some([channelPostId |-> Some(2), fromChatId |-> Some("c2")])],
   [id |-> 1, forwardInfo |-> Undefined]}

\* deletions of stored ids, of the same ids again, of the comment of the
\* other thread and of an id the table never held
DeficitDeleteChatMessages ==
  \E ids \in {<<1>>, <<2>>, <<3>>, <<2, 1>>, <<4>>} :
    /\ \A threadId \in CountedThreads :
         \A c \in CountOf(Global, "c1", threadId) : c > -MaxDeficit
    /\ Becomes(deleteChatMessages(Global, "c1", ids),
               Call("deleteChatMessages", "c1", 0, 0, ids, <<>>, FALSE),
               Undefined)

UpdateThreadUnreadFromForwardedMessage ==
  \E originMessage \in OriginMessages, lastMessageId \in {1, 2} :
    /\ \A threadId \in CountedThreads :
         \A c \in CountOf(Global, "c1", threadId) : c > -MaxDeficit
    /\ Becomes(updateThreadUnreadFromForwardedMessage(Global, originMessage, "c1",
                                                      lastMessageId, TRUE),
               Call("updateThreadUnreadFromForwardedMessage", "c1", 0, 0,
                    <<originMessage.id, lastMessageId>>, <<>>, TRUE),
               Undefined)

NextDeficit == DeficitDeleteChatMessages \/ UpdateThreadUnreadFromForwardedMessage

SpecDeficit == InitDeficit /\ [][NextDeficit]_vars

\* C29: from a state where every messagesCount is the number of non-local ids
\* known for the thread, after any deleteChatMessages calls (of the same ids
\* again, of ids the table does not hold, of messages of another thread) and
\* updateThreadUnreadFromForwardedMessage calls with isDeleting, every
\* thread's messagesCount is >= 0.
C29_CountNonNegative ==
  \A x \in ThreadsOf(Global) :
    \A c \in CountOf(Global, x[1], x[2]) : c >= 0


-----------------------------------------------------------------------------
(* C31, C32: the order of the windows and the thread's lastViewportIds *)

\* C31: in every state that addViewportId, safeReplaceViewportIds and
\* deleteChatMessages calls reach, every tab's viewportIds, when present, is
\* strictly ascending with no id twice.
C31_ViewportOrdered ==
  \A ids \in AllViewports(Global) : StrictlyAscending(ids) /\ NoRepeat(ids)

\* an id below the window was added to a full window, and two tabs hold
\* windows
C31_Witness ==
  /\ last.call.op = "addViewportId"
  /\ last.call.ids = <<1>>
  /\ last.before = Some(<<2, 3>>)
  /\ selectViewportIds(Global, "c1", MAIN_THREAD_ID, last.call.tabId) = Some(<<1, 3>>)
  /\ Cardinality(AllViewports(Global)) = 2

\* the thread's lastViewportIds
selectLastViewportIds(global, chatId, threadId) ==
  selectThread(global, chatId, threadId).lastViewportIds

\* the tabs whose viewportIds for the main thread of c1 the step writes, in
\* the order of the writes: the tab of an addViewportId call whose id is not
\* in the window, the tab of a safeReplaceViewportIds call, and for
\* deleteChatMessages every tab that has a window, in the order of byTabId
Writers ==
  LET call == last'.call
      window == selectViewportIds(Global, "c1", MAIN_THREAD_ID, call.tabId)
  IN IF call.op = "safeReplaceViewportIds" THEN <<call.tabId>>
     ELSE IF call.op = "addViewportId"
     THEN (IF IsDef(window) /\ call.ids[1] \in Range(Get(window))
           THEN <<>> ELSE <<call.tabId>>)
     ELSE IF call.op = "deleteChatMessages"
     THEN SortedSeqOf({tabId \in DOMAIN byTabId :
                         IsDef(selectViewportIds(Global, "c1", MAIN_THREAD_ID, tabId))})
     ELSE <<>>

\* C32: every write of a tab's viewportIds through addViewportId,
\* safeReplaceViewportIds or deleteChatMessages sets the thread's
\* lastViewportIds to the value written, so the thread's lastViewportIds is
\* the viewportIds of the tab that wrote last (absent if that write cleared
\* the window), whatever the windows of the other tabs.
C32_LastWriter ==
  [][IF Writers # <<>>
     THEN selectLastViewportIds(GlobalNext, "c1", MAIN_THREAD_ID)
            = selectViewportIds(GlobalNext, "c1", MAIN_THREAD_ID, Writers[Len(Writers)])
     ELSE selectLastViewportIds(GlobalNext, "c1", MAIN_THREAD_ID)
            = selectLastViewportIds(Global, "c1", MAIN_THREAD_ID)]_vars

\* tab 1 wrote last, and the window of tab 2 is another one
C32_Witness ==
  /\ last.call.op = "addViewportId"
  /\ last.call.tabId = 1
  /\ selectViewportIds(Global, "c1", MAIN_THREAD_ID, 1) = Some(<<2, 3>>)
  /\ selectViewportIds(Global, "c1", MAIN_THREAD_ID, 2) = Some(<<1>>)
  /\ selectLastViewportIds(Global, "c1", MAIN_THREAD_ID) = Some(<<2, 3>>)

====
